---- MODULE Spec2Model ----
(***************************************************************************)
(* A model of the ndb event loop, google/appengine/ext/ndb/eventloop.py.   *)
(*                                                                         *)
(* The state is one EventLoop object (current, idlers, inactive, queue,    *)
(* rpcs), its clock, and the states of the RPC handles it may be given.    *)
(* Callbacks are the environment: what a callback returns, whether it      *)
(* raises and what it registers while it runs are inputs of the step that  *)
(* invokes it.  wait_any is the environment too: the handle it returns is  *)
(* an input of the step.                                                   *)
(***************************************************************************)
EXTENDS Integers, Sequences, FiniteSets, TLC

\* ------------------------------------------------------------------ bounds
\* Registrations (queue_call, add_idle, queue_rpc) over a behaviour.
MaxItems == 2
\* Ticks of the clock between operations (sleeps are not capped).
MaxTick == 1
\* Relative delays range over 0..MaxDelay, absolute ones over
\* Threshold..Threshold+MaxDelay.
MaxDelay == 1
\* Arguments of immediate items range over 0..MaxArg.
MaxArg == 1
\* RPC handles are 1..MaxRpc.
MaxRpc == 2
\* How often idle callbacks may report did-work (True) over a behaviour.
MaxDidWork == 1
\* wait_any may return no handle only while fewer than MaxLog callbacks were
\* invoked by the running call (it cannot stall a drain for ever).
MaxLog == 2

\* The context variables of the request (those of gae_headers and wsgi) are
\* 1..MaxVar.
MaxVar == 2

\* In a drain with idle items (DrainSpec) a registration beyond MaxItems is
\* an idle item, up to this many registrations.
MaxIdle == 3

\* The contexts are 1..MaxCtx; context 1 is the one the request runs in.
MaxCtx == 2
\* EventLoop instances constructed over a behaviour (they are numbered from
\* 1 in the order of their construction).
MaxLoops == 3

\* ---------------------------------------------------------------- constants
\* queue_call: a delay below this is relative to now, otherwise absolute.
Threshold == 1000000000

Handles == 1..MaxRpc
CtxVars == 1..MaxVar
\* What a context variable holds: a value of the request, a Token object
\* (what ContextVar.set returns), or nothing.
Values == {"a", "b"}
Token == "token"
Unset == "unset"
Contexts == 1..MaxCtx
Args == 0..MaxArg

\* An optional number: Python's None, or a number.
None == [isNone |-> TRUE, d |-> 0]
Num(n) == [isNone |-> FALSE, d |-> n]

Delays ==
    {None} \cup {Num(n) : n \in 0..MaxDelay}
           \cup {Num(Threshold + n) : n \in 0..MaxDelay}

\* The operations queue_rpc is given: a single RPC, or a MultiRpc over one
\* or more RPCs.
Single(h) == [multi |-> FALSE, subs |-> {h}]
Multi(hs) == [multi |-> TRUE, subs |-> hs]
NoOp == [multi |-> FALSE, subs |-> {}]
RpcOps ==
    {Single(h) : h \in Handles}
    \cup {Multi(hs) : hs \in (SUBSET Handles) \ {{}}}
\* The MultiRpcs that queue_rpc wraps: those over two or more RPCs.
Composites == {hs \in SUBSET Handles : Cardinality(hs) > 1}
\* The operations a callback may register: the single RPCs and the MultiRpc
\* over all of them.
RegOps == {Single(h) : h \in Handles} \cup {Multi(Handles)}

\* What a callback registers while it runs: nothing, or one call of
\* queue_call, add_idle or queue_rpc.
RegNone == [op |-> "none", delay |-> None, arg |-> 0, rpc |-> NoOp, cb |-> TRUE]
Regs ==
    {RegNone}
    \cup [op : {"queue_call"}, delay : Delays, arg : {0}, rpc : {NoOp}, cb : {TRUE}]
    \cup [op : {"add_idle"}, delay : {None}, arg : {0}, rpc : {NoOp}, cb : {TRUE}]
    \cup [op : {"queue_rpc"}, delay : {None}, arg : {0}, rpc : RegOps, cb : BOOLEAN]

\* What an idle callback returns (None, False, True), or "raise".  The
\* other callbacks' return values are ignored by the loop.
Results == {"None", "False", "True", "raise"}

\* What wait_any returns: no handle (<<>>) or one handle.
Waits == {<<>>} \cup {<<h>> : h \in Handles}

VARIABLES
    now,        \* clock.now()
    current,    \* self.current: FIFO of items
    idlers,     \* self.idlers: FIFO of items
    inactive,   \* self.inactive
    queue,      \* self.queue: list of events
    rpcs,       \* self.rpcs: handle -> item
    rpcState,   \* rpc.state of every handle
    done,       \* rpc.__done of every MultiRpc that queue_rpc wraps
    pc,         \* "idle", or "run" while run() is looping
    log,        \* the callbacks invoked, in order, by the last call of the
                \* application (run0, run1, run): which structure the item
                \* came from, its number, argument and deadline, and what an
                \* idle callback returned
    ret,        \* the last call of run0, run1 or run and what it returned
                \* (run1's True and False are 1 and 0); for run1 also, in
                \* delay, what its call of run0 returned
    exc,        \* the exception the last operation raised, or "none"
    nextId,     \* the number the next registered item gets
    noWork,     \* the idle items that reported no-work, in order, since
                \* inactive was last set to zero
    atReset,    \* the idle items registered when inactive was last set to
                \* zero
    start,      \* what run() found when it began: nextId, the idle queue,
                \* the table of pending RPCs and whether nothing but idle
                \* items was pending; kept until the next call
    didWork,    \* how often idle callbacks reported did-work
    contexts,   \* the contexts that exist
    ev,         \* _EVENT_LOOP: in every context the EventLoop instance it
                \* is bound to, 0 for None.  The fields above are those of
                \* the instance that get_event_loop() last returned in
                \* context 1
    made,       \* how many EventLoop instances were constructed
    req         \* the request's context variables and a snapshot of them:
                \* vars, the value of every variable in the current
                \* context; context and tokens, the snapshot's _context
                \* and _restore_tokens; phase, where the snapshot is
                \* ("none" before it is taken, "made", "inside" its with
                \* block, "exited" when the block has just been left);
                \* before, the values when the block was entered; raised,
                \* whether the block was left by an exception
VARIABLE
    was         \* the last operation, until the application goes on: the
                \* loop, its contexts and pc as the operation found them,
                \* what the application called it with (call) and what the
                \* callbacks and wait_any did in it (env)

vars == <<now, current, idlers, inactive, queue, rpcs, rpcState, done, pc, log,
          ret, exc, nextId, noWork, atReset, start, didWork, contexts, ev,
          made, req, was>>

\* The state the methods work on, as one record.  depth is the number of
\* callbacks of the loop that have started and not yet returned.
St ==
    [now |-> now, current |-> current, idlers |-> idlers,
     inactive |-> inactive, queue |-> queue, rpcs |-> rpcs,
     rpcState |-> rpcState, done |-> done, log |-> log, nextId |-> nextId,
     noWork |-> noWork, atReset |-> atReset,
     didWork |-> didWork, exc |-> "none", depth |-> 0]

\* The same, at the start of a call of the application: nothing invoked yet.
St0 == [St EXCEPT !.log = <<>>]

\* The state after an operation is that of the record the operation returns
\* (the record is bound once, by T, so that it is computed once).
CommitLoop(S) ==
    \E T \in {S} :
        /\ now' = T.now
        /\ current' = T.current
        /\ idlers' = T.idlers
        /\ inactive' = T.inactive
        /\ queue' = T.queue
        /\ rpcs' = T.rpcs
        /\ rpcState' = T.rpcState
        /\ done' = T.done
        /\ log' = T.log
        /\ nextId' = T.nextId
        /\ noWork' = T.noWork
        /\ atReset' = T.atReset
        /\ didWork' = T.didWork
        /\ exc' = T.exc

\* The same for an operation that leaves the contexts alone.
Commit(S) == CommitLoop(S) /\ UNCHANGED <<contexts, ev, made, req>>

\* The numbers of the items of a queue.
IdsOf(q) == {q[i].id : i \in 1..Len(q)}

\* self.inactive = 0.
reset(S) ==
    [S EXCEPT !.inactive = 0, !.noWork = <<>>, !.atReset = IdsOf(S.idlers)]

\* (mutant) rpcs is an attribute of the class: every instance has the same
\* table.
EventLoop_init_shares_rpcs(S) ==
    reset([S EXCEPT !.current = <<>>, !.idlers = <<>>, !.queue = <<>>])

\* (mutant) __init__ leaves inactive as it is.
EventLoop_init_keeps_inactive(S) ==
    [S EXCEPT !.current = <<>>, !.idlers = <<>>, !.queue = <<>>,
              !.rpcs = <<>>, !.noWork = <<>>, !.atReset = {}]

\* __init__, lines 85-90: four new, empty structures and inactive = 0.  (The
\* clock the loop reads is now, whichever _Clock object supplies it.)
EventLoop_init(S) ==
    reset([S EXCEPT !.current = <<>>, !.idlers = <<>>, !.queue = <<>>,
                    !.rpcs = <<>>])

\* What is pending in the four structures.
Pending(S) ==
    Len(S.current) + Len(S.idlers) + Len(S.queue) + Cardinality(DOMAIN S.rpcs)

\* (mutant) the structures are emptied in place and __init__ is not called.
clear_without_init(S) ==
    [S EXCEPT !.current = <<>>, !.idlers = <<>>, !.queue = <<>>,
              !.rpcs = <<>>]

\* clear, lines 92-113: while anything is pending, __init__ gives the loop
\* new structures and the old ones are emptied; no callback is called.
\* After one turn nothing is pending.
clear(S) == IF Pending(S) > 0 THEN EventLoop_init(S) ELSE S

\* --------------------------------------------------------------- the clock
\* (mutant) a sleep that returns at once.
sleep_returns_at_once(S, seconds) == S

\* _Clock.sleep: time passes by the requested number of seconds.
sleep(S, seconds) == [S EXCEPT !.now = @ + seconds]

\* ---------------------------------------------------------- the timer queue
\* list.insert(i, e): i beyond the end appends.
ListInsert(q, i, e) ==
    LET k == IF i > Len(q) THEN Len(q) ELSE i
    IN  SubSeq(q, 1, k) \o <<e>> \o SubSeq(q, k + 1, Len(q))

\* (mutant) the search with its comparison turned round.
RECURSIVE bisect_reversed(_, _, _, _)
bisect_reversed(q, when, lo, hi) ==
    IF lo < hi
    THEN LET mid == (lo + hi) \div 2
         IN  IF when > q[mid + 1].when
             THEN bisect_reversed(q, when, lo, mid)
             ELSE bisect_reversed(q, when, mid + 1, hi)
    ELSE lo

\* (mutant) bisect_left: the search stops left of the equal deadlines.
RECURSIVE bisect_left(_, _, _, _)
bisect_left(q, when, lo, hi) ==
    IF lo < hi
    THEN LET mid == (lo + hi) \div 2
         IN  IF when <= q[mid + 1].when
             THEN bisect_left(q, when, lo, mid)
             ELSE bisect_left(q, when, mid + 1, hi)
    ELSE lo

\* The binary search of insort_event_right; lo and hi are 0-based.
RECURSIVE bisect_right(_, _, _, _)
bisect_right(q, when, lo, hi) ==
    IF lo < hi
    THEN LET mid == (lo + hi) \div 2
         IN  IF when < q[mid + 1].when
             THEN bisect_right(q, when, lo, mid)
             ELSE bisect_right(q, when, mid + 1, hi)
    ELSE lo

\* (mutant) a negative lo is taken for 0.
insort_event_right_clamps(S, event, lo, hi) ==
    LET l == IF lo < 0 THEN 0 ELSE lo
        h == IF hi = <<>> THEN Len(S.queue) ELSE hi[1]
    IN  [S EXCEPT !.queue =
             ListInsert(@, bisect_right(@, event.when, l, h), event)]

\* (mutant) the event is appended, whatever its deadline.
insort_appends(S, event, lo, hi) == [S EXCEPT !.queue = Append(@, event)]

\* insort_event_right(event, lo, hi); hi is <<>> for the default None.
insort_event_right(S, event, lo, hi) ==
    IF lo < 0
    THEN [S EXCEPT !.exc = "ValueError"]
    ELSE LET h == IF hi = <<>> THEN Len(S.queue) ELSE hi[1]
         IN  [S EXCEPT !.queue =
                  ListInsert(@, bisect_right(@, event.when, lo, h), event)]

\* ------------------------------------------------------------ registration
\* (mutant) immediate items are kept in the order of their arguments.
queue_call_by_arg(S, delay, item) ==
    IF delay.isNone
    THEN LET k == Cardinality({i \in 1..Len(S.current) :
                                  S.current[i].arg <= item.arg})
         IN  [S EXCEPT !.current = ListInsert(@, k, item)]
    ELSE LET when == IF delay.d < Threshold THEN delay.d + S.now ELSE delay.d
         IN  insort_event_right(
                 S, [when |-> when, id |-> item.id, arg |-> item.arg], 0, <<>>)

\* (mutant) a delay equal to the threshold is taken as relative.
queue_call_inclusive(S, delay, item) ==
    IF delay.isNone
    THEN [S EXCEPT !.current = Append(@, item)]
    ELSE LET when == IF delay.d <= Threshold THEN delay.d + S.now ELSE delay.d
         IN  insort_event_right(
                 S, [when |-> when, id |-> item.id, arg |-> item.arg], 0, <<>>)

\* queue_call, lines 140-150.
queue_call(S, delay, item) ==
    IF delay.isNone
    THEN [S EXCEPT !.current = Append(@, item)]
    ELSE LET when == IF delay.d < Threshold THEN delay.d + S.now ELSE delay.d
         IN  insort_event_right(
                 S, [when |-> when, id |-> item.id, arg |-> item.arg], 0, <<>>)

add_idle(S, item) == [S EXCEPT !.idlers = Append(@, item)]

\* rpc.state: of a single RPC its own state; of a MultiRpc the state its
\* RPCs share, and RUNNING while they differ.
OpState(S, rpc) ==
    IF \A h \in rpc.subs : S.rpcState[h] = "FINISHING" THEN "FINISHING"
    ELSE IF \A h \in rpc.subs : S.rpcState[h] = "IDLE" THEN "IDLE"
    ELSE "RUNNING"

\* (mutant) the test of rpc.state is missing.
queue_rpc_unchecked(S, rpc, item) ==
    LET wrapped == rpc.multi /\ Cardinality(rpc.subs) > 1
        entry == [id |-> item.id, arg |-> item.arg, cb |-> item.cb,
                  multi |-> IF wrapped THEN rpc.subs ELSE {}]
    IN  [S EXCEPT
           !.done = IF wrapped THEN [@ EXCEPT ![rpc.subs] = FALSE] ELSE @,
           !.rpcs = [r \in DOMAIN @ \cup rpc.subs |->
                        IF r \in rpc.subs THEN entry ELSE @[r]]]

\* (mutant) a wrapped MultiRpc is registered under its first sub-RPC only.
queue_rpc_first_sub(S, rpc, item) ==
    IF OpState(S, rpc) \notin {"RUNNING", "FINISHING"}
    THEN [S EXCEPT !.exc = "RuntimeError"]
    ELSE LET wrapped == rpc.multi /\ Cardinality(rpc.subs) > 1
             keys == IF wrapped
                     THEN {CHOOSE h \in rpc.subs : \A g \in rpc.subs : h <= g}
                     ELSE rpc.subs
             entry == [id |-> item.id, arg |-> item.arg, cb |-> item.cb,
                       multi |-> IF wrapped THEN rpc.subs ELSE {}]
         IN  [S EXCEPT
                !.done = IF wrapped THEN [@ EXCEPT ![rpc.subs] = FALSE] ELSE @,
                !.rpcs = [r \in DOMAIN @ \cup keys |->
                             IF r \in keys THEN entry ELSE @[r]]]

\* queue_rpc(rpc, callback, ...).  The entry of a wrapped MultiRpc keeps, in
\* multi, the RPCs of the MultiRpc its help_multi_rpc_along looks at.
queue_rpc(S, rpc, item) ==
    IF OpState(S, rpc) \notin {"RUNNING", "FINISHING"}
    THEN [S EXCEPT !.exc = "RuntimeError"]
    ELSE LET wrapped == rpc.multi /\ Cardinality(rpc.subs) > 1
             entry == [id |-> item.id, arg |-> item.arg, cb |-> item.cb,
                       multi |-> IF wrapped THEN rpc.subs ELSE {}]
         IN  [S EXCEPT
                !.done = IF wrapped THEN [@ EXCEPT ![rpc.subs] = FALSE] ELSE @,
                !.rpcs = [r \in DOMAIN @ \cup rpc.subs |->
                             IF r \in rpc.subs THEN entry ELSE @[r]]]

\* A registration made with the next free number.
Item(S, arg, cb) == [id |-> S.nextId, arg |-> arg, cb |-> cb]
Fresh(S) == [S EXCEPT !.nextId = @ + 1]

Register(S, reg) ==
    CASE reg.op = "none" -> S
      [] reg.op = "queue_call" ->
            queue_call(Fresh(S), reg.delay, Item(S, reg.arg, TRUE))
      [] reg.op = "add_idle" -> add_idle(Fresh(S), Item(S, reg.arg, TRUE))
      [] reg.op = "queue_rpc" ->
            queue_rpc(Fresh(S), reg.rpc, Item(S, reg.arg, reg.cb))

\* -------------------------------------------------------------- callbacks
\* callback(*args, **kwds): the callback registers env.reg, and it raises
\* when env.res is "raise" (or when its registration raised).  The call is
\* logged with what an idle callback returned, and with "raise" when the
\* callback raised its own exception.
Invoke(S, kind, item, when, env) ==
    LET S1 == [S EXCEPT
                 !.didWork = IF kind = "idle" /\ env.res = "True"
                             THEN @ + 1 ELSE @]
        S2 == Register(S1, env.reg)
        raised == S2.exc = "none" /\ env.res = "raise"
    IN  [S2 EXCEPT
           !.log = Append(@, [kind |-> kind, id |-> item.id,
                              arg |-> item.arg, when |-> when,
                              depth |-> S.depth,
                              res |-> IF kind = "idle" \/ raised
                                      THEN env.res ELSE "None"]),
           !.exc = IF raised THEN "CallbackError" ELSE @]

\* ---------------------------------------------------------------- run_idle
\* (mutant) the backoff test is off by one: > for >=.
run_idle_off_by_one(S, env) ==
    IF Len(S.idlers) = 0 \/ S.inactive > Len(S.idlers)
    THEN [S |-> S, val |-> FALSE]
    ELSE LET idler == Head(S.idlers)
             S1 == [S EXCEPT !.idlers = Tail(@)]
             S2 == Invoke(S1, "idle", idler, 0, env)
         IN  IF S2.exc # "none"
             THEN [S |-> S2, val |-> FALSE]
             ELSE IF env.res # "None"
             THEN [S |-> IF env.res = "True"
                         THEN reset([S2 EXCEPT !.idlers = Append(@, idler)])
                         ELSE [S2 EXCEPT !.inactive = @ + 1,
                                         !.noWork = Append(@, idler.id),
                                         !.idlers = Append(@, idler)],
                   val |-> TRUE]
             ELSE [S |-> S2, val |-> TRUE]

\* (mutant) the idler is put back at the front: appendleft for append.
run_idle_appendleft(S, env) ==
    IF Len(S.idlers) = 0 \/ S.inactive >= Len(S.idlers)
    THEN [S |-> S, val |-> FALSE]
    ELSE LET idler == Head(S.idlers)
             S1 == [S EXCEPT !.idlers = Tail(@)]
             S2 == Invoke(S1, "idle", idler, 0, env)
         IN  IF S2.exc # "none"
             THEN [S |-> S2, val |-> FALSE]
             ELSE IF env.res # "None"
             THEN [S |-> IF env.res = "True"
                         THEN reset([S2 EXCEPT !.idlers = <<idler>> \o @])
                         ELSE [S2 EXCEPT !.inactive = @ + 1,
                                         !.noWork = Append(@, idler.id),
                                         !.idlers = <<idler>> \o @],
                   val |-> TRUE]
             ELSE [S |-> S2, val |-> TRUE]

\* (mutant) only an idler that did work is put back: the result is tested
\* for truth where it should be tested for None.
run_idle_drops_on_false(S, env) ==
    IF Len(S.idlers) = 0 \/ S.inactive >= Len(S.idlers)
    THEN [S |-> S, val |-> FALSE]
    ELSE LET idler == Head(S.idlers)
             S1 == [S EXCEPT !.idlers = Tail(@)]
             S2 == Invoke(S1, "idle", idler, 0, env)
         IN  IF S2.exc # "none"
             THEN [S |-> S2, val |-> FALSE]
             ELSE IF env.res = "True"
             THEN [S |-> reset([S2 EXCEPT !.idlers = Append(@, idler)]),
                   val |-> TRUE]
             ELSE [S |-> S2, val |-> TRUE]

\* (mutant) a removed idler is counted as a no-work report: None is tested
\* for truth before it is tested for None.
run_idle_counts_removal(S, env) ==
    IF Len(S.idlers) = 0 \/ S.inactive >= Len(S.idlers)
    THEN [S |-> S, val |-> FALSE]
    ELSE LET idler == Head(S.idlers)
             S1 == [S EXCEPT !.idlers = Tail(@)]
             S2 == Invoke(S1, "idle", idler, 0, env)
         IN  IF S2.exc # "none"
             THEN [S |-> S2, val |-> FALSE]
             ELSE IF env.res # "None"
             THEN [S |-> IF env.res = "True"
                         THEN reset([S2 EXCEPT !.idlers = Append(@, idler)])
                         ELSE [S2 EXCEPT !.inactive = @ + 1,
                                         !.noWork = Append(@, idler.id),
                                         !.idlers = Append(@, idler)],
                   val |-> TRUE]
             ELSE [S |-> [S2 EXCEPT !.inactive = @ + 1], val |-> TRUE]

\* (mutant) the results are read the wrong way round: did-work backs off,
\* no-work resets.
run_idle_inverted(S, env) ==
    IF Len(S.idlers) = 0 \/ S.inactive >= Len(S.idlers)
    THEN [S |-> S, val |-> FALSE]
    ELSE LET idler == Head(S.idlers)
             S1 == [S EXCEPT !.idlers = Tail(@)]
             S2 == Invoke(S1, "idle", idler, 0, env)
         IN  IF S2.exc # "none"
             THEN [S |-> S2, val |-> FALSE]
             ELSE IF env.res # "None"
             THEN [S |-> IF env.res = "False"
                         THEN reset([S2 EXCEPT !.idlers = Append(@, idler)])
                         ELSE [S2 EXCEPT !.inactive = @ + 1,
                                         !.noWork = Append(@, idler.id),
                                         !.idlers = Append(@, idler)],
                   val |-> TRUE]
             ELSE [S |-> S2, val |-> TRUE]

\* (mutant) the backoff test is missing: only an empty idle queue declines.
run_idle_ignores_backoff(S, env) ==
    IF Len(S.idlers) = 0
    THEN [S |-> S, val |-> FALSE]
    ELSE LET idler == Head(S.idlers)
             S1 == [S EXCEPT !.idlers = Tail(@)]
             S2 == Invoke(S1, "idle", idler, 0, env)
         IN  IF S2.exc # "none"
             THEN [S |-> S2, val |-> FALSE]
             ELSE IF env.res # "None"
             THEN [S |-> IF env.res = "True"
                         THEN reset([S2 EXCEPT !.idlers = Append(@, idler)])
                         ELSE [S2 EXCEPT !.inactive = @ + 1,
                                         !.noWork = Append(@, idler.id),
                                         !.idlers = Append(@, idler)],
                   val |-> TRUE]
             ELSE [S |-> S2, val |-> TRUE]

\* (mutant) the idle item is moved to the back of the idle queue before its
\* callback is called (rotate for popleft), and taken out afterwards when
\* the callback returned None.
run_idle_requeues_first(S, env) ==
    IF Len(S.idlers) = 0 \/ S.inactive >= Len(S.idlers)
    THEN [S |-> S, val |-> FALSE]
    ELSE LET idler == Head(S.idlers)
             S1 == [S EXCEPT !.idlers = Append(Tail(@), idler)]
             S2 == Invoke(S1, "idle", idler, 0, env)
             Other(e) == e.id # idler.id
         IN  IF S2.exc # "none"
             THEN [S |-> S2, val |-> FALSE]
             ELSE IF env.res # "None"
             THEN [S |-> IF env.res = "True"
                         THEN reset(S2)
                         ELSE [S2 EXCEPT !.inactive = @ + 1,
                                         !.noWork = Append(@, idler.id)],
                   val |-> TRUE]
             ELSE [S |-> [S2 EXCEPT !.idlers = SelectSeq(@, Other)],
                   val |-> TRUE]

\* run_idle, lines 200-221.
run_idle(S, env) ==
    IF Len(S.idlers) = 0 \/ S.inactive >= Len(S.idlers)
    THEN [S |-> S, val |-> FALSE]
    ELSE LET idler == Head(S.idlers)
             S1 == [S EXCEPT !.idlers = Tail(@)]
             S2 == Invoke(S1, "idle", idler, 0, env)
         IN  IF S2.exc # "none"
             THEN [S |-> S2, val |-> FALSE]
             ELSE IF env.res # "None"
             THEN [S |-> IF env.res = "True"
                         THEN reset([S2 EXCEPT !.idlers = Append(@, idler)])
                         ELSE [S2 EXCEPT !.inactive = @ + 1,
                                         !.noWork = Append(@, idler.id),
                                         !.idlers = Append(@, idler)],
                   val |-> TRUE]
             ELSE [S |-> S2, val |-> TRUE]

\* -------------------------------------------------------------------- run0
\* (mutant) the callback is called whenever the MultiRpc is FINISHING: the
\* __done flag is not looked at.
help_multi_rpc_along_no_flag(S, item, env) ==
    IF OpState(S, Multi(item.multi)) = "FINISHING"
    THEN LET S1 == [S EXCEPT !.done[item.multi] = TRUE]
         IN  IF item.cb
             THEN Invoke(S1, "rpc", item, 0, env)
             ELSE [S1 EXCEPT !.exc = "TypeError"]
    ELSE S

\* (mutant) the callback is called for every sub-RPC that completes, as the
\* docstring of queue_rpc has it.
help_multi_rpc_along_each(S, item, env) ==
    IF item.cb
    THEN Invoke(S, "rpc", item, 0, env)
    ELSE [S EXCEPT !.exc = "TypeError"]

\* (mutant) the callback is called when the last sub-RPC of the MultiRpc
\* leaves the table, not when the MultiRpc is first seen FINISHING.
help_multi_rpc_along_last(S, item, env) ==
    IF /\ OpState(S, Multi(item.multi)) = "FINISHING"
       /\ item.multi \cap DOMAIN S.rpcs = {}
       /\ ~S.done[item.multi]
    THEN LET S1 == [S EXCEPT !.done[item.multi] = TRUE]
         IN  IF item.cb
             THEN Invoke(S1, "rpc", item, 0, env)
             ELSE [S1 EXCEPT !.exc = "TypeError"]
    ELSE S

\* help_multi_rpc_along, lines 172-175: c is called once, when the MultiRpc
\* is FINISHING; calling a callback that is None is a TypeError.
help_multi_rpc_along(S, item, env) ==
    IF OpState(S, Multi(item.multi)) = "FINISHING" /\ ~S.done[item.multi]
    THEN LET S1 == [S EXCEPT !.done[item.multi] = TRUE]
         IN  IF item.cb
             THEN Invoke(S1, "rpc", item, 0, env)
             ELSE [S1 EXCEPT !.exc = "TypeError"]
    ELSE S

\* (mutant) a handle that is not in the table is passed over: the test of
\* line 255 is missing and the entry is looked up with a default.
run0_rpcs_ignores_stranger(S, env, delay) ==
    IF DOMAIN S.rpcs # {}
    THEN LET S1 == reset(S)
         IN  IF env.wait = <<>> \/ env.wait[1] \notin DOMAIN S1.rpcs
             THEN [S |-> S1, val |-> Num(0)]
             ELSE LET rpc == env.wait[1]
                      item == S1.rpcs[rpc]
                      S2 == [S1 EXCEPT
                               !.rpcs = [r \in DOMAIN @ \ {rpc} |-> @[r]],
                               !.rpcState[rpc] = "FINISHING"]
                  IN  [S |-> IF item.multi # {}
                             THEN help_multi_rpc_along(S2, item, env)
                             ELSE IF item.cb
                             THEN Invoke(S2, "rpc", item, 0, env)
                             ELSE S2,
                       val |-> Num(0)]
    ELSE [S |-> S, val |-> delay]

\* (mutant) the entry is deleted after the callback has returned: lines
\* 259 and 260-261 change places.
run0_rpcs_deletes_late(S, env, delay) ==
    IF DOMAIN S.rpcs # {}
    THEN LET S1 == reset(S)
         IN  IF env.wait = <<>>
             THEN [S |-> S1, val |-> Num(0)]
             ELSE LET rpc == env.wait[1]
                  IN  IF rpc \notin DOMAIN S1.rpcs
                      THEN [S |-> [S1 EXCEPT !.exc = "RuntimeError"],
                            val |-> None]
                      ELSE LET item == S1.rpcs[rpc]
                               S2 == [S1 EXCEPT !.rpcState[rpc] = "FINISHING"]
                               S3 == IF item.multi # {}
                                     THEN help_multi_rpc_along(S2, item, env)
                                     ELSE IF item.cb
                                     THEN Invoke(S2, "rpc", item, 0, env)
                                     ELSE S2
                           IN  [S |-> IF S3.exc # "none"
                                      THEN S3
                                      ELSE [S3 EXCEPT
                                              !.rpcs = [r \in DOMAIN @ \ {rpc}
                                                           |-> @[r]]],
                                val |-> Num(0)]
    ELSE [S |-> S, val |-> delay]

\* (mutant) "return 0" (line 263) is inside "if rpc is not None": when
\* wait_any returns None, run0 goes on to "return delay".
run0_rpcs_returns_delay(S, env, delay) ==
    IF DOMAIN S.rpcs # {}
    THEN LET S1 == reset(S)
         IN  IF env.wait = <<>>
             THEN [S |-> S1, val |-> delay]
             ELSE LET rpc == env.wait[1]
                  IN  IF rpc \notin DOMAIN S1.rpcs
                      THEN [S |-> [S1 EXCEPT !.exc = "RuntimeError"],
                            val |-> None]
                      ELSE LET item == S1.rpcs[rpc]
                               S2 == [S1 EXCEPT
                                        !.rpcs = [r \in DOMAIN @ \ {rpc} |-> @[r]],
                                        !.rpcState[rpc] = "FINISHING"]
                           IN  [S |-> IF item.multi # {}
                                      THEN help_multi_rpc_along(S2, item, env)
                                      ELSE IF item.cb
                                      THEN Invoke(S2, "rpc", item, 0, env)
                                      ELSE S2,
                                val |-> Num(0)]
    ELSE [S |-> S, val |-> delay]

\* Lines 248-264: the pending RPCs, then the remembered delay.  The RPC
\* that wait_any returns has completed.
run0_rpcs(S, env, delay) ==
    IF DOMAIN S.rpcs # {}
    THEN LET S1 == reset(S)
         IN  IF env.wait = <<>>
             THEN [S |-> S1, val |-> Num(0)]
             ELSE LET rpc == env.wait[1]
                  IN  IF rpc \notin DOMAIN S1.rpcs
                      THEN [S |-> [S1 EXCEPT !.exc = "RuntimeError"],
                            val |-> None]
                      ELSE LET item == S1.rpcs[rpc]
                               S2 == [S1 EXCEPT
                                        !.rpcs = [r \in DOMAIN @ \ {rpc} |-> @[r]],
                                        !.rpcState[rpc] = "FINISHING"]
                           IN  [S |-> IF item.multi # {}
                                      THEN help_multi_rpc_along(S2, item, env)
                                      ELSE IF item.cb
                                      THEN Invoke(S2, "rpc", item, 0, env)
                                      ELSE S2,
                                val |-> Num(0)]
    ELSE [S |-> S, val |-> delay]

\* (mutant) a timer that is not yet due is reported before the pending
\* RPCs are looked at.
run0_queue_delay_first(S, env) ==
    LET delay == IF Len(S.queue) > 0
                 THEN Num(S.queue[1].when - S.now)
                 ELSE None
    IN  IF Len(S.queue) > 0 /\ delay.d <= 0
        THEN LET event == Head(S.queue)
                 S1 == [reset(S) EXCEPT !.queue = Tail(@)]
             IN  [S |-> Invoke(S1, "queue", event, event.when, env),
                  val |-> Num(0)]
        ELSE IF Len(S.queue) > 0
        THEN [S |-> S, val |-> delay]
        ELSE run0_rpcs(S, env, delay)

\* (mutant) the test of the remaining delay is missing: the earliest event
\* is served whether it is due or not.
run0_queue_undue(S, env) ==
    IF Len(S.queue) > 0
    THEN LET event == Head(S.queue)
             S1 == [reset(S) EXCEPT !.queue = Tail(@)]
         IN  [S |-> Invoke(S1, "queue", event, event.when, env),
              val |-> Num(0)]
    ELSE run0_rpcs(S, env, None)

\* (mutant) inactive is reset as soon as the timer queue is not empty,
\* before the delay is tested.
run0_queue_resets_early(S, env) ==
    LET delay == IF Len(S.queue) > 0
                 THEN Num(S.queue[1].when - S.now)
                 ELSE None
    IN  IF Len(S.queue) > 0 /\ delay.d <= 0
        THEN LET event == Head(S.queue)
                 S1 == [reset(S) EXCEPT !.queue = Tail(@)]
             IN  [S |-> Invoke(S1, "queue", event, event.when, env),
                  val |-> Num(0)]
        ELSE run0_rpcs(IF Len(S.queue) > 0 THEN reset(S) ELSE S, env, delay)

\* (mutant) a due timed event is served without the reset of inactive:
\* line 242 is missing.
run0_queue_no_reset(S, env) ==
    LET delay == IF Len(S.queue) > 0
                 THEN Num(S.queue[1].when - S.now)
                 ELSE None
    IN  IF Len(S.queue) > 0 /\ delay.d <= 0
        THEN LET event == Head(S.queue)
                 S1 == [S EXCEPT !.queue = Tail(@)]
             IN  [S |-> Invoke(S1, "queue", event, event.when, env),
                  val |-> Num(0)]
        ELSE run0_rpcs(S, env, delay)

\* (mutant) run0 returns None after it has served a due timed event: the
\* return of line 247 has lost its value.
run0_queue_returns_none(S, env) ==
    LET delay == IF Len(S.queue) > 0
                 THEN Num(S.queue[1].when - S.now)
                 ELSE None
    IN  IF Len(S.queue) > 0 /\ delay.d <= 0
        THEN LET event == Head(S.queue)
                 S1 == [reset(S) EXCEPT !.queue = Tail(@)]
             IN  [S |-> Invoke(S1, "queue", event, event.when, env),
                  val |-> None]
        ELSE run0_rpcs(S, env, delay)

\* Lines 238-247: the timer queue.
run0_queue(S, env) ==
    LET delay == IF Len(S.queue) > 0
                 THEN Num(S.queue[1].when - S.now)
                 ELSE None
    IN  IF Len(S.queue) > 0 /\ delay.d <= 0
        THEN LET event == Head(S.queue)
                 S1 == [reset(S) EXCEPT !.queue = Tail(@)]
             IN  [S |-> Invoke(S1, "queue", event, event.when, env),
                  val |-> Num(0)]
        ELSE run0_rpcs(S, env, delay)

\* Lines 236-238: what run0 does with what run_idle returned (r.val).
run0_idled(r, env) ==
    IF r.S.exc # "none" THEN [S |-> r.S, val |-> None]
    ELSE IF r.val THEN [S |-> r.S, val |-> Num(0)]
    ELSE run0_queue(r.S, env)

\* Lines 236-237: the idle callbacks.
run0_idle(S, env) == run0_idled(run_idle(S, env), env)

\* (mutant) the immediate callback is called inside a try block that logs
\* the exception and goes on.
run0_swallows(S, env) ==
    IF Len(S.current) > 0
    THEN LET item == Head(S.current)
             S1 == [reset(S) EXCEPT !.current = Tail(@)]
         IN  [S |-> [Invoke(S1, "current", item, 0, env) EXCEPT !.exc = "none"],
              val |-> Num(0)]
    ELSE run0_idle(S, env)

\* (mutant) a due timer is served before the immediate callbacks.
run0_timer_first(S, env) ==
    IF Len(S.queue) > 0 /\ S.queue[1].when <= S.now
    THEN run0_queue(S, env)
    ELSE IF Len(S.current) > 0
    THEN LET item == Head(S.current)
             S1 == [reset(S) EXCEPT !.current = Tail(@)]
         IN  [S |-> Invoke(S1, "current", item, 0, env), val |-> Num(0)]
    ELSE run0_idle(S, env)

\* (mutant) the return after the immediate callback is missing.
run0_falls_through(S, env) ==
    IF Len(S.current) > 0
    THEN LET item == Head(S.current)
             S1 == [reset(S) EXCEPT !.current = Tail(@)]
             S2 == Invoke(S1, "current", item, 0, env)
         IN  IF S2.exc # "none"
             THEN [S |-> S2, val |-> None]
             ELSE run0_idle(S2, env)
    ELSE run0_idle(S, env)

\* (mutant) the immediate item is taken off the queue after its callback
\* has returned: the callback is called on current[0], popleft follows.
run0_pops_late(S, env) ==
    IF Len(S.current) > 0
    THEN LET item == Head(S.current)
             S2 == Invoke(reset(S), "current", item, 0, env)
         IN  [S |-> IF S2.exc # "none"
                    THEN S2
                    ELSE [S2 EXCEPT !.current = Tail(@)],
              val |-> Num(0)]
    ELSE run0_idle(S, env)

\* Lines 230-235: the immediate callbacks.
run0(S, env) ==
    IF Len(S.current) > 0
    THEN LET item == Head(S.current)
             S1 == [reset(S) EXCEPT !.current = Tail(@)]
         IN  [S |-> Invoke(S1, "current", item, 0, env), val |-> Num(0)]
    ELSE run0_idle(S, env)

\* -------------------------------------------------------------------- run1
\* (mutant) the delay is tested for truth, so that 0 counts as None.
run1_delay_truthy(r) ==
    IF r.S.exc # "none" THEN [S |-> r.S, val |-> FALSE, delay |-> None]
    ELSE IF r.val.isNone \/ r.val.d = 0
    THEN [S |-> r.S, val |-> FALSE, delay |-> r.val]
    ELSE [S |-> sleep(r.S, r.val.d), val |-> TRUE, delay |-> r.val]

\* Lines 273-277: what run1 does with what run0 returned (r.val is the
\* delay, which the result keeps in its field delay).
run1_delay(r) ==
    IF r.S.exc # "none" THEN [S |-> r.S, val |-> FALSE, delay |-> None]
    ELSE IF r.val.isNone THEN [S |-> r.S, val |-> FALSE, delay |-> r.val]
    ELSE IF r.val.d > 0
    THEN [S |-> sleep(r.S, r.val.d), val |-> TRUE, delay |-> r.val]
    ELSE [S |-> r.S, val |-> TRUE, delay |-> r.val]

run1(S, env) == run1_delay(run0(S, env))

\* ------------------------------------------------------------ environments
\* What a step finds: an idle item that is runnable; an item of a queue to
\* serve (an immediate item, a runnable idle item or a due timed event); or
\* none, and a table of pending RPCs to wait on.
FindsIdle(S) == S.current = <<>> /\ S.inactive < Len(S.idlers)
FindsQueued(S) ==
    \/ S.current # <<>>
    \/ FindsIdle(S)
    \/ Len(S.queue) > 0 /\ S.queue[1].when <= S.now
FindsRpcs(S) == ~FindsQueued(S) /\ S.rpcs # <<>>

\* No callback runs and wait_any returns None, or is not called.
NoInput == [res |-> "None", reg |-> RegNone, wait |-> <<>>]

\* What the callback of a step may register: a callback registers only
\* while registrations are left.
RegsLeft(S) == IF S.nextId <= MaxItems THEN Regs ELSE {RegNone}
\* What the callback may return: a result other than "raise" is read from an
\* idle callback only, and it reports did-work only while the did-work
\* budget lasts.
ResultsOf(S, idle) ==
    IF ~idle THEN {"None", "raise"}
    ELSE IF S.didWork < MaxDidWork THEN Results
    ELSE Results \ {"True"}

\* The inputs of one step whose callback registers one of regs.  Inputs the
\* step cannot read are fixed: there is a callback, to register something
\* and to return or raise, only when the step serves an item of a queue or
\* wait_any returns a handle whose entry has a callback; wait_any is called
\* only by a step that finds nothing to serve in the queues and a table
\* that is not empty.
EnvsWith(S, regs) ==
    IF FindsQueued(S)
    THEN [res : ResultsOf(S, FindsIdle(S)), reg : regs, wait : {<<>>}]
    ELSE IF FindsRpcs(S)
    THEN (IF Len(S.log) < MaxLog THEN {NoInput} ELSE {})
         \cup [res : {"None"}, reg : {RegNone},
               wait : {<<h>> : h \in Handles}]
         \cup [res : {"None", "raise"}, reg : regs,
               wait : {<<h>> : h \in {g \in DOMAIN S.rpcs : S.rpcs[g].cb}}]
    ELSE {NoInput}

\* The inputs of one step, within the bounds.
Envs(S) == EnvsWith(S, RegsLeft(S))

\* A registration that queue_rpc accepts and that the loop can serve: the
\* operation was sent, and a wrapped MultiRpc has a callback.
GoodRpc(S, rpc, cb) ==
    /\ OpState(S, rpc) # "IDLE"
    /\ rpc.subs \in Composites => cb

\* The well-behaved inputs: no callback raises, no registration is refused
\* and wait_any returns a handle of the table.
GoodEnvs(S) ==
    {e \in Envs(S) :
        /\ e.res # "raise"
        /\ e.reg.op = "queue_rpc" => GoodRpc(S, e.reg.rpc, e.reg.cb)
        /\ FindsRpcs(S) => e.wait # <<>> /\ e.wait[1] \in DOMAIN S.rpcs}

\* The inputs of run_idle() called by the application: wait_any is not
\* called, and the immediate queue does not matter.
IdleEnvs(S) ==
    IF S.inactive < Len(S.idlers)
    THEN [res : ResultsOf(S, TRUE), reg : RegsLeft(S), wait : {<<>>}]
    ELSE {NoInput}

GoodIdleEnvs(S) ==
    {e \in IdleEnvs(S) :
        /\ e.res # "raise"
        /\ e.reg.op = "queue_rpc" => GoodRpc(S, e.reg.rpc, e.reg.cb)}

\* ret after anything but run_idle, run0, run1 and run; start outside run().
NoRet == [op |-> "none", val |-> None, delay |-> None]
NoStart == [id |-> 0, idlers |-> <<>>, rpcs |-> <<>>, pure |-> FALSE]

\* No variable of the request is set, no snapshot was taken.
NoSnapshot ==
    [vars |-> [v \in CtxVars |-> Unset], context |-> <<>>, tokens |-> <<>>,
     before |-> [v \in CtxVars |-> Unset], phase |-> "none",
     raised |-> FALSE]

\* The record of an operation that finds the loop as it is, called with
\* call, in which the callbacks and wait_any do env.
Was(env, call) ==
    [now |-> now, current |-> current, idlers |-> idlers,
     inactive |-> inactive, queue |-> queue, rpcs |-> rpcs,
     rpcState |-> rpcState, done |-> done, log |-> log, nextId |-> nextId,
     didWork |-> didWork, pc |-> pc, ev |-> ev, made |-> made,
     env |-> env, call |-> call]

\* No operation is on record.
NoWas ==
    [now |-> 0, current |-> <<>>, idlers |-> <<>>, inactive |-> 0,
     queue |-> <<>>, rpcs |-> <<>>, rpcState |-> [h \in Handles |-> "IDLE"],
     done |-> [hs \in Composites |-> FALSE], log |-> <<>>, nextId |-> 0,
     didWork |-> 0, pc |-> "none", ev |-> [c \in Contexts |-> 0],
     made |-> 0, env |-> NoInput, call |-> RegNone]

\* What the application calls the loop with: the shape of a registration.
Call(op, delay, arg, rpc, cb) ==
    [op |-> op, delay |-> delay, arg |-> arg, rpc |-> rpc, cb |-> cb]
\* A call without arguments.
Plain(op) == Call(op, None, 0, NoOp, TRUE)

\* ------------------------------------------------------------------- Init
Init ==
    /\ now = Threshold
    /\ current = <<>>
    /\ idlers = <<>>
    /\ inactive = 0
    /\ queue = <<>>
    /\ rpcs = <<>>
    /\ rpcState = [h \in Handles |-> "IDLE"]
    /\ done = [hs \in Composites |-> FALSE]
    /\ pc = "idle"
    /\ log = <<>>
    /\ ret = NoRet
    /\ exc = "none"
    /\ nextId = 1
    /\ noWork = <<>>
    /\ atReset = {}
    /\ start = NoStart
    /\ didWork = 0
    /\ contexts = {1}
    /\ ev = [c \in Contexts |-> IF c = 1 THEN 1 ELSE 0]
    /\ made = 1
    /\ req = NoSnapshot
    /\ was = NoWas

\* ---------------------------------------------------------------- actions
\* Context 1 has a loop: get_event_loop(), with which the functions of the
\* module begin (lines 313-340), returns it.
Bound == ev[1] # 0

\* What the last operation returned, raised and invoked, and the loop as
\* it found it, are on record until the application goes on; nothing is on
\* record then.
Settled ==
    /\ ret = NoRet
    /\ exc = "none"
    /\ log = <<>>
    /\ start = NoStart
    /\ was = NoWas

\* The application goes on after an operation.
Forget ==
    /\ pc = "idle"
    /\ ~Settled
    /\ ret' = NoRet
    /\ exc' = "none"
    /\ log' = <<>>
    /\ start' = NoStart
    /\ was' = NoWas
    /\ UNCHANGED <<now, current, idlers, inactive, queue, rpcs, rpcState, done,
                   pc, nextId, noWork, atReset, didWork, contexts, ev, made,
                   req>>

\* An event that is not a call of the loop happens between the operations
\* of the application, or while run() is looping: what run() has invoked
\* so far stays on record.
Event ==
    /\ pc = "idle" => Settled
    /\ ret' = NoRet
    /\ was' = Was(NoInput, Plain("none"))
    /\ UNCHANGED <<log, exc, start>>

\* Time passes.
Tick ==
    /\ now < Threshold + MaxTick
    /\ now' = now + 1
    /\ Event
    /\ UNCHANGED <<current, idlers, inactive, queue, rpcs, rpcState, done, pc,
                   nextId, noWork, atReset, didWork, contexts, ev, made, req>>

\* The RPC subsystem sends a call, or completes one.
Dispatch(h) ==
    /\ rpcState[h] = "IDLE"
    /\ rpcState' = [rpcState EXCEPT ![h] = "RUNNING"]
    /\ Event
    /\ UNCHANGED <<now, current, idlers, inactive, queue, rpcs, done, pc,
                   nextId, noWork, atReset, didWork, contexts, ev, made, req>>

Finish(h) ==
    /\ rpcState[h] = "RUNNING"
    /\ rpcState' = [rpcState EXCEPT ![h] = "FINISHING"]
    /\ Event
    /\ UNCHANGED <<now, current, idlers, inactive, queue, rpcs, done, pc,
                   nextId, noWork, atReset, didWork, contexts, ev, made, req>>

QueueCall(delay, arg) ==
    /\ pc = "idle"
    /\ Settled
    /\ Bound
    /\ nextId <= MaxItems
    /\ Commit(queue_call(Fresh(St0), delay, Item(St, arg, TRUE)))
    /\ ret' = NoRet
    /\ start' = NoStart
    /\ UNCHANGED pc
    /\ was' = Was(NoInput, Call("queue_call", delay, arg, NoOp, TRUE))

AddIdle ==
    /\ pc = "idle"
    /\ Settled
    /\ Bound
    /\ nextId <= MaxItems
    /\ Commit(add_idle(Fresh(St0), Item(St, 0, TRUE)))
    /\ ret' = NoRet
    /\ start' = NoStart
    /\ UNCHANGED pc
    /\ was' = Was(NoInput, Plain("add_idle"))

QueueRpc(rpc, cb) ==
    /\ pc = "idle"
    /\ Settled
    /\ Bound
    /\ nextId <= MaxItems
    /\ Commit(queue_rpc(Fresh(St0), rpc, Item(St, 0, cb)))
    /\ ret' = NoRet
    /\ start' = NoStart
    /\ UNCHANGED pc
    /\ was' = Was(NoInput, Call("queue_rpc", None, 0, rpc, cb))

\* run_idle() called by the application, outside run().
RunIdleStep(env) ==
    /\ pc = "idle"
    /\ Settled
    /\ Bound
    /\ \E r \in {run_idle(St0, env)} :
           /\ Commit(r.S)
           /\ ret' = [op |-> "run_idle", val |-> Num(IF r.val THEN 1 ELSE 0),
                     delay |-> None]
    /\ start' = NoStart
    /\ UNCHANGED pc
    /\ was' = Was(env, Plain("run_idle"))

RunIdle == \E env \in IdleEnvs(St0) : RunIdleStep(env)

\* run0() called by the application, outside run().
Run0Step(env) ==
    /\ pc = "idle"
    /\ Settled
    /\ Bound
    /\ \E r \in {run0(St0, env)} :
           /\ Commit(r.S)
           /\ ret' = [op |-> "run0", val |-> r.val, delay |-> None]
    /\ start' = NoStart
    /\ UNCHANGED pc
    /\ was' = Was(env, Plain("run0"))

Run0 == \E env \in Envs(St0) : Run0Step(env)

\* run1() called by the application, outside run().
Run1Step(env) ==
    /\ pc = "idle"
    /\ Settled
    /\ Bound
    /\ \E r \in {run1(St0, env)} :
           /\ Commit(r.S)
           /\ ret' = [op |-> "run1", val |-> Num(IF r.val THEN 1 ELSE 0),
                     delay |-> r.delay]
    /\ start' = NoStart
    /\ UNCHANGED pc
    /\ was' = Was(env, Plain("run1"))

Run1 == \E env \in Envs(St0) : Run1Step(env)

\* run() is entered: line 282.
RunStart ==
    /\ pc = "idle"
    /\ Settled
    /\ Bound
    /\ pc' = "run"
    /\ inactive' = 0
    /\ noWork' = <<>>
    /\ atReset' = IdsOf(idlers)
    /\ log' = <<>>
    /\ start' = [id |-> nextId, idlers |-> idlers, rpcs |-> rpcs,
                 pure |-> current = <<>> /\ queue = <<>> /\ rpcs = <<>>]
    /\ exc' = "none"
    /\ ret' = [op |-> "run", val |-> None, delay |-> None]
    /\ UNCHANGED <<now, current, idlers, queue, rpcs, rpcState, done, nextId,
                   didWork, contexts, ev, made, req>>
    /\ was' = Was(NoInput, Plain("run"))

\* One turn of run()'s loop, lines 283-285: run1(), and out of the loop
\* when it returns False or raises.
RunStep(env) ==
    /\ pc = "run"
    /\ \E r \in {run1(St, env)} :
           /\ Commit(r.S)
           /\ pc' = IF r.S.exc # "none" \/ ~r.val THEN "idle" ELSE "run"
           /\ ret' = IF r.S.exc # "none" \/ ~r.val
                     THEN [op |-> "run", val |-> None, delay |-> None]
                     ELSE [op |-> "run1", val |-> Num(1), delay |-> r.delay]
    /\ UNCHANGED start
    /\ was' = Was(env, Plain("run"))

RunLoop == \E env \in Envs(St) : RunStep(env)

Next ==
    \/ Tick
    \/ \E h \in Handles : Dispatch(h)
    \/ \E h \in Handles : Finish(h)
    \/ \E delay \in Delays, arg \in Args : QueueCall(delay, arg)
    \/ AddIdle
    \/ \E rpc \in RpcOps, cb \in BOOLEAN : QueueRpc(rpc, cb)
    \/ RunIdle
    \/ Run0
    \/ Run1
    \/ RunStart
    \/ RunLoop
    \/ Forget

Spec == Init /\ [][Next]_vars

\* The loop with well-behaved callbacks and a well-behaved wait_any; run()
\* goes on looping once it was entered.  The clock advances only while the
\* loop sleeps, and an RPC completes when wait_any returns it.
LiveQueueRpc ==
    \E rpc \in RpcOps, cb \in BOOLEAN :
        (rpc.subs \in Composites => cb) /\ QueueRpc(rpc, cb)
LiveRunIdle == \E env \in GoodIdleEnvs(St0) : RunIdleStep(env)
LiveRun0 == \E env \in GoodEnvs(St0) : Run0Step(env)
LiveRun1 == \E env \in GoodEnvs(St0) : Run1Step(env)
LiveRunLoop == \E env \in GoodEnvs(St) : RunStep(env)

LiveNext ==
    \/ \E h \in Handles : Dispatch(h)
    \/ \E delay \in Delays, arg \in Args : QueueCall(delay, arg)
    \/ AddIdle
    \/ LiveQueueRpc
    \/ LiveRunIdle
    \/ LiveRun0
    \/ LiveRun1
    \/ RunStart
    \/ LiveRunLoop
    \/ Forget

LiveSpec == Init /\ [][LiveNext]_vars /\ WF_vars(LiveRunLoop)

\* ------------------------------------------- the loop and its contexts
\* get_event_loop() called in context c, lines 299-310: the loop the context
\* is bound to, or a new one, which the context is then bound to.  The new
\* loop of context 1 is the one the fields describe from now on.  (The token
\* of lines 295-296 is set by the first _set_event_loop, which Init has
\* behind it.)
GetEventLoop(c) ==
    /\ pc = "idle"
    /\ Settled
    /\ c \in contexts
    /\ IF ev[c] # 0
       THEN /\ Commit(St0)
            /\ ret' = [op |-> "get_event_loop", val |-> Num(ev[c]),
                       delay |-> None]
       ELSE /\ made < MaxLoops
            /\ made' = made + 1
            /\ ev' = [ev EXCEPT ![c] = made + 1]
            /\ UNCHANGED <<contexts, req>>
            /\ CommitLoop(IF c = 1 THEN EventLoop_init(St0) ELSE St0)
            /\ ret' = [op |-> "get_event_loop", val |-> Num(made + 1),
                       delay |-> None]
    /\ start' = NoStart
    /\ UNCHANGED pc
    /\ was' = Was(NoInput, Call("get_event_loop", None, c, NoOp, TRUE))

\* _set_event_loop(None) called in context c, lines 292-296.
SetEventLoop(c) ==
    /\ pc = "idle"
    /\ Settled
    /\ c \in contexts
    /\ ev' = [ev EXCEPT ![c] = 0]
    /\ CommitLoop(St0)
    /\ ret' = NoRet
    /\ start' = NoStart
    /\ UNCHANGED <<pc, contexts, made, req>>
    /\ was' = Was(NoInput, Call("_set_event_loop", None, c, NoOp, TRUE))

\* Context d is made as a copy of context c (contextvars.copy_context(), a
\* task of asyncio): _EVENT_LOOP is bound in d to what it is bound to in c.
CopyContext(c, d) ==
    /\ pc = "idle"
    /\ Settled
    /\ c \in contexts
    /\ d \notin contexts
    /\ contexts' = contexts \cup {d}
    /\ ev' = [ev EXCEPT ![d] = ev[c]]
    /\ CommitLoop(St0)
    /\ ret' = NoRet
    /\ start' = NoStart
    /\ UNCHANGED <<pc, made, req>>
    /\ was' = Was(NoInput, Call("copy_context", None, d, NoOp, TRUE))

\* Context d is that of a new thread: the thread begins with no binding of
\* _EVENT_LOOP (the snapshot that StartNewThread enters in the thread holds
\* the variables of the request's headers and WSGI environment only).
StartThread(d) ==
    /\ pc = "idle"
    /\ Settled
    /\ d \notin contexts
    /\ contexts' = contexts \cup {d}
    /\ ev' = [ev EXCEPT ![d] = 0]
    /\ CommitLoop(St0)
    /\ ret' = NoRet
    /\ start' = NoStart
    /\ UNCHANGED <<pc, made, req>>
    /\ was' = Was(NoInput, Call("start_new_thread", None, d, NoOp, TRUE))

\* Context d, not the request's, ends.
ExitContext(d) ==
    /\ pc = "idle"
    /\ Settled
    /\ d \in contexts \ {1}
    /\ contexts' = contexts \ {d}
    /\ ev' = [ev EXCEPT ![d] = 0]
    /\ CommitLoop(St0)
    /\ ret' = NoRet
    /\ start' = NoStart
    /\ UNCHANGED <<pc, made, req>>
    /\ was' = Was(NoInput, Call("exit_context", None, d, NoOp, TRUE))

\* clear() called by the application.  ret keeps, as val, how many events
\* were pending when it was called (clear itself returns nothing).
Clear ==
    /\ pc = "idle"
    /\ Settled
    /\ Bound
    /\ Commit(clear(St0))
    /\ ret' = [op |-> "clear", val |-> Num(Pending(St0)), delay |-> None]
    /\ start' = NoStart
    /\ UNCHANGED pc
    /\ was' = Was(NoInput, Plain("clear"))

\* insort_event_right(event, lo, hi) called by the application: lo may be
\* negative, hi is None or an index of the queue.
InsortEventRight(when, lo, hi) ==
    /\ pc = "idle"
    /\ Settled
    /\ Bound
    /\ nextId <= MaxItems
    /\ Commit(insort_event_right(
                  Fresh(St0), [when |-> when, id |-> nextId, arg |-> 0],
                  lo, hi))
    /\ ret' = NoRet
    /\ start' = NoStart
    /\ UNCHANGED pc
    /\ was' = Was(NoInput, Call("insort_event_right", Num(when), lo, NoOp, TRUE))

\* run0() finds an immediate item whose callback calls run0() itself before
\* it returns or raises (env.res); inner is the input of that inner call.
\* The callbacks the inner call invokes start while the outer callback has
\* not returned; what the inner call raises comes out of the outer callback.
run0_nested(S, env, inner) ==
    LET item == Head(S.current)
        S1 == [reset(S) EXCEPT !.current = Tail(@)]
        S2 == Invoke(S1, "current", item, 0, [env EXCEPT !.res = "None"])
    IN  IF S2.exc # "none"
        THEN S2
        ELSE LET S3 == [run0([S2 EXCEPT !.depth = @ + 1], inner).S
                           EXCEPT !.depth = S.depth]
             IN  IF S3.exc = "none" /\ env.res = "raise"
                 THEN [S3 EXCEPT !.exc = "CallbackError"]
                 ELSE S3

\* The inputs of the inner call: it finds the loop as the outer call left
\* it when it invoked the callback.
NestedEnvs(S) ==
    {e \in Envs([reset(S) EXCEPT !.current = Tail(@)]) : e.reg = RegNone}

Run0Nested ==
    /\ pc = "idle"
    /\ Settled
    /\ Bound
    /\ Len(current) > 0
    /\ \E env \in {e \in Envs(St0) : e.reg = RegNone},
          inner \in NestedEnvs(St0) :
          /\ Commit(run0_nested(St0, env, inner))
          /\ ret' = [op |-> "run0", val |-> Num(0), delay |-> None]
          /\ was' = Was(env, Plain("run0"))
    /\ start' = NoStart
    /\ UNCHANGED pc

LoIndices == -1..MaxItems
HiIndices == {<<>>} \cup {<<k>> : k \in 0..Len(queue)}

\* The loop of the request with what is around it: the accessor and the
\* contexts, clear(), insort_event_right called directly, and callbacks
\* that call run0().
CtxNext ==
    \/ \E c \in Contexts : GetEventLoop(c)
    \/ \E c \in Contexts : SetEventLoop(c)
    \/ \E c, d \in Contexts : CopyContext(c, d)
    \/ \E d \in Contexts : StartThread(d)
    \/ \E d \in Contexts : ExitContext(d)
    \/ \E h \in Handles : Dispatch(h)
    \/ \E delay \in Delays, arg \in Args : QueueCall(delay, arg)
    \/ AddIdle
    \/ \E rpc \in RpcOps, cb \in BOOLEAN : QueueRpc(rpc, cb)
    \/ \E when \in Threshold..(Threshold + MaxDelay), lo \in LoIndices,
          hi \in HiIndices : InsortEventRight(when, lo, hi)
    \/ Clear
    \/ RunIdle
    \/ Run0
    \/ Run0Nested
    \/ Forget

CtxSpec == Init /\ [][CtxNext]_vars

\* The loop of the request with every operation of its interface: what
\* Spec has, clear(), and callbacks that call run0().
FullNext ==
    \/ Next
    \/ Clear
    \/ Run0Nested

FullSpec == Init /\ [][FullNext]_vars

\* ------------------------------------------------------ drains with idlers
\* add_idle() called by the application, with the wider bound.
AddIdleMore ==
    /\ pc = "idle"
    /\ Settled
    /\ Bound
    /\ nextId <= MaxIdle
    /\ Commit(add_idle(Fresh(St0), Item(St, 0, TRUE)))
    /\ ret' = NoRet
    /\ start' = NoStart
    /\ UNCHANGED pc
    /\ was' = Was(NoInput, Plain("add_idle"))

\* The inputs of one step of a drain: those of Envs, and a callback may
\* call add_idle while fewer than MaxIdle registrations were made.
DrainEnvs(S) ==
    EnvsWith(S, IF S.nextId <= MaxItems THEN Regs
                ELSE IF S.nextId <= MaxIdle
                THEN {r \in Regs : r.op \in {"none", "add_idle"}}
                ELSE {RegNone})

DrainLoop == \E env \in DrainEnvs(St) : RunStep(env)

\* The application registers work and calls run(); the callbacks register
\* work while run() drains the loop.
DrainNext ==
    \/ \E h \in Handles : Dispatch(h)
    \/ \E delay \in Delays, arg \in Args : QueueCall(delay, arg)
    \/ AddIdleMore
    \/ \E rpc \in RpcOps, cb \in BOOLEAN : QueueRpc(rpc, cb)
    \/ RunStart
    \/ DrainLoop
    \/ Forget

DrainSpec == Init /\ [][DrainNext]_vars

\* ------------------------------------------- the request's context snapshot
\* The loop is left alone.
LoopUnchanged ==
    UNCHANGED <<now, current, idlers, inactive, queue, rpcs, rpcState, done,
                pc, log, ret, exc, nextId, noWork, atReset, start, didWork,
                contexts, ev, made, was>>

\* ctxvar.set(x) in the current context: the request's variables are set
\* from the WSGI environment, and the code that runs inside the snapshot
\* may set them too.
SetVar(v, x) ==
    /\ req' = [req EXCEPT !.vars[v] = x,
                          !.phase = IF @ = "exited" THEN "made" ELSE @]
    /\ LoopUnchanged

\* get_request_context_snapshot(), lines 95-111: the snapshot holds the
\* value of every variable that is set, or nothing when the context is read
\* from os.environ.
GetRequestContextSnapshot(readFromOsEnviron) ==
    /\ req.phase # "inside"
    /\ req' = [req EXCEPT
                 !.context = IF readFromOsEnviron
                             THEN <<>>
                             ELSE [v \in {w \in CtxVars : req.vars[w] # Unset}
                                     |-> req.vars[v]],
                 !.tokens = <<>>,
                 !.phase = "made"]
    /\ LoopUnchanged

\* The snapshot is handed to a new thread, whose context has no variable
\* set.
RunInThread ==
    /\ req.phase = "made"
    /\ req' = [req EXCEPT !.vars = [v \in CtxVars |-> Unset]]
    /\ LoopUnchanged

\* __enter__, lines 80-83: every variable of the snapshot is set to the
\* snapshot's value, and the Token that set returns, which remembers the
\* value the variable had, is kept.
Enter ==
    /\ req.phase \in {"made", "exited"}
    /\ req' = [req EXCEPT
                 !.before = req.vars,
                 !.tokens = [v \in DOMAIN req.context |-> req.vars[v]],
                 !.vars = [v \in CtxVars |->
                             IF v \in DOMAIN req.context
                             THEN req.context[v] ELSE req.vars[v]],
                 !.phase = "inside",
                 !.raised = FALSE]
    /\ LoopUnchanged

\* __exit__, lines 85-88, at the end of the with block or of run(f),
\* whether f returned or raised: ctxvar.set(token) makes the Token the
\* value of the variable (it is ctxvar.reset(token) that would restore the
\* value the Token remembers), and the tokens are dropped.
Exit(raised) ==
    /\ req.phase = "inside"
    /\ req' = [req EXCEPT
                 !.vars = [v \in CtxVars |->
                             IF v \in DOMAIN req.tokens
                             THEN Token ELSE req.vars[v]],
                 !.tokens = <<>>,
                 !.phase = "exited",
                 !.raised = raised]
    /\ LoopUnchanged

SnapNext ==
    \/ \E v \in CtxVars, x \in Values : SetVar(v, x)
    \/ \E readFromOsEnviron \in BOOLEAN :
          GetRequestContextSnapshot(readFromOsEnviron)
    \/ RunInThread
    \/ Enter
    \/ \E raised \in BOOLEAN : Exit(raised)

SnapSpec == Init /\ [][SnapNext]_vars

\* ------------------------------------------------------- reading the state
\* The log belongs to a run() (running, or just returned).
InRun == start.id > 0
\* run() has just returned normally.
RunReturned == pc = "idle" /\ ret.op = "run" /\ exc = "none"
\* Entry i of the log is a timed event that was queued before run() began.
QueuedBefore(i) == log[i].kind = "queue" /\ log[i].id < start.id

\* The operation on record is a step: run0 was called, alone, by run1 or
\* by run's loop.
IsStep ==
    \/ was.call.op \in {"run0", "run1"}
    \/ was.call.op = "run" /\ was.pc = "run"
\* The callbacks the step invoked.
Invoked ==
    IF was.pc = "run" THEN SubSeq(log, Len(was.log) + 1, Len(log)) ELSE log
\* What the operation found.
IdleRunnable == was.inactive < Len(was.idlers)
TimerDue == Len(was.queue) > 0 /\ was.queue[1].when <= was.now
\* Every timed event is still in the queue after the operation.
QueueKept ==
    \A i \in 1..Len(was.queue) :
        \E j \in 1..Len(queue) : queue[j] = was.queue[i]
\* The fields fs of the loop are as the operation found them.
Unchanged(fs) == \A f \in fs : St[f] = was[f]

\* ------------------------------------------------------------------ claims
\* C1: timed events queued before a drain with any deadlines, in any order
\* of insertion, are invoked by run() in the order of their deadlines.
C1_DrainInDeadlineOrder ==
    InRun =>
        \A i, j \in 1..Len(log) :
            (i < j /\ QueuedBefore(i) /\ QueuedBefore(j)
                   /\ log[i].when # log[j].when)
                => log[i].when < log[j].when

\* run() returned after invoking two timed events that had been queued in
\* the order opposite to their deadlines.
C1_Witness ==
    /\ RunReturned
    /\ \E i, j \in 1..Len(log) :
          /\ i < j /\ QueuedBefore(i) /\ QueuedBefore(j)
          /\ log[i].when < log[j].when
          /\ log[i].id > log[j].id

\* C2: the timer queue is sorted ascending by deadline in every state reached
\* through queue_call, run0, run1 and run.
C2_QueueSorted ==
    \A i, j \in 1..Len(queue) : i < j => queue[i].when <= queue[j].when

\* Two events with different deadlines, the later one queued first.
C2_Witness ==
    /\ Len(queue) = 2
    /\ queue[1].when < queue[2].when
    /\ queue[1].id > queue[2].id

\* C3: timed events with the same deadline stand in the timer queue in the
\* order of their insertion, and are invoked in that order.
C3_TiesFifo ==
    /\ \A i, j \in 1..Len(queue) :
           (i < j /\ queue[i].when = queue[j].when) => queue[i].id < queue[j].id
    /\ \A i, j \in 1..Len(log) :
           (i < j /\ log[i].kind = "queue" /\ log[j].kind = "queue"
                  /\ log[i].when = log[j].when)
               => log[i].id < log[j].id

\* run() returned after invoking two timed events with one deadline, both
\* queued before it began.
C3_Witness ==
    /\ RunReturned
    /\ \E i, j \in 1..Len(log) :
          /\ i < j /\ QueuedBefore(i) /\ QueuedBefore(j)
          /\ log[i].when = log[j].when

\* C4: immediate items are invoked in the order of their queue_call calls,
\* whatever their arguments: the immediate queue holds them in that order,
\* the invoked ones were invoked in that order, and before the ones that
\* still wait.
C4_ImmediateFifo ==
    /\ \A i, j \in 1..Len(current) : i < j => current[i].id < current[j].id
    /\ \A i, j \in 1..Len(log) :
           (i < j /\ log[i].kind = "current" /\ log[j].kind = "current")
               => log[i].id < log[j].id
    /\ \A i \in 1..Len(log), j \in 1..Len(current) :
           log[i].kind = "current" => log[i].id < current[j].id

\* run() returned after invoking two immediate items, the one with the
\* greater argument first.
C4_Witness ==
    /\ RunReturned
    /\ \E i, j \in 1..Len(log) :
          /\ i < j /\ log[i].kind = "current" /\ log[j].kind = "current"
          /\ log[i].arg > log[j].arg

\* C5: a step that finds the immediate queue non-empty invokes its front
\* item and nothing else, and pops no timed event, also when a timed event
\* queued earlier is due.
C5_ImmediateBeforeTimer ==
    (IsStep /\ was.current # <<>>) =>
        /\ Len(Invoked) = 1
        /\ Invoked[1].kind = "current"
        /\ Invoked[1].id = Head(was.current).id
        /\ QueueKept

\* run0 has invoked an immediate item while a timed event that was queued
\* before that item is due and still waits.
C5_Witness ==
    /\ ret.op = "run0"
    /\ Len(log) = 1
    /\ log[1].kind = "current"
    /\ Len(queue) > 0
    /\ queue[1].when <= now
    /\ queue[1].id < log[1].id

\* C6: a step serves the first source that has work, in the order immediate,
\* idle, due timer, pending RPCs, timer not yet due: a runnable idle item is
\* invoked before a due timed event, a due timed event before the loop waits
\* on a pending RPC, and the loop waits on a pending RPC (it returns 0 and
\* does not sleep) before it reports the wait for a timer that is not due.
C6_PriorityOrder ==
    (IsStep /\ was.current = <<>>) =>
        /\ IdleRunnable =>
              /\ Len(Invoked) = 1
              /\ Invoked[1].kind = "idle"
              /\ Invoked[1].id = Head(was.idlers).id
              /\ QueueKept
              /\ DOMAIN was.rpcs \subseteq DOMAIN rpcs
        /\ (~IdleRunnable /\ TimerDue) =>
              /\ Len(Invoked) = 1
              /\ Invoked[1].kind = "queue"
              /\ Invoked[1].id = Head(was.queue).id
              /\ DOMAIN was.rpcs \subseteq DOMAIN rpcs
        /\ (~IdleRunnable /\ ~TimerDue /\ was.rpcs # <<>>) =>
              /\ \A i \in 1..Len(Invoked) : Invoked[i].kind = "rpc"
              /\ QueueKept
              /\ inactive = 0
              /\ now = was.now
              /\ (ret.op = "run0" /\ exc = "none") => ret.val = Num(0)
        /\ (~IdleRunnable /\ ~TimerDue /\ was.rpcs = <<>>
                /\ was.queue # <<>>) =>
              /\ Invoked = <<>>
              /\ ret.op = "run0" =>
                    ret.val = Num(was.queue[1].when - was.now)
              /\ ret.op # "run0" => now = was.queue[1].when

\* run0 has waited on a pending RPC and invoked its callback while a timed
\* event that is not yet due waits.
C6_Witness ==
    /\ ret.op = "run0"
    /\ ret.val = Num(0)
    /\ Len(log) = 1
    /\ log[1].kind = "rpc"
    /\ Len(queue) > 0
    /\ queue[1].when > now

\* C7: one call of run0 invokes at most one callback.
C7_AtMostOneCallback == IsStep => Len(Invoked) <= 1

\* run0 has invoked one immediate item and returned while an idle item was
\* runnable.
C7_Witness ==
    /\ ret.op = "run0"
    /\ Len(log) = 1
    /\ log[1].kind = "current"
    /\ inactive < Len(idlers)

\* The call has just reported that nothing is left: run0 returned None, or
\* run() returned.
ReportedDrained ==
    \/ ret.op = "run0" /\ ret.val.isNone /\ exc = "none"
    \/ RunReturned

\* C8 as claimed: run() never returns and run0 never returns None while the
\* immediate queue, the idle queue, the timer queue or the table of pending
\* RPCs is non-empty.
C8_AllFourEmpty ==
    ReportedDrained =>
        current = <<>> /\ idlers = <<>> /\ queue = <<>> /\ rpcs = <<>>

\* What a step must find to report that nothing is left.
NothingRunnable ==
    /\ was.current = <<>>
    /\ was.queue = <<>>
    /\ was.rpcs = <<>>
    /\ was.inactive >= Len(was.idlers)

\* The step reported that nothing is left: run0 returned None, run1
\* returned False, run() left its loop, and nothing was raised.
StepReportsDrained ==
    /\ exc = "none"
    /\ \/ ret.op = "run0" /\ ret.val.isNone
       \/ ret.op = "run1" /\ ret.val = Num(0)
       \/ ret.op = "run"

\* C8, amended: run0 returns None, and run() returns, exactly at a step that
\* finds the immediate queue, the timer queue and the table of pending RPCs
\* empty and no idle item runnable (inactive >= the length of the idle
\* queue); idle items that have backed off may remain.
C8_DrainedExactly == IsStep => (StepReportsDrained <=> NothingRunnable)

\* run() has returned and left two idle items, both backed off, in the idle
\* queue.
C8_Witness ==
    /\ RunReturned
    /\ Len(idlers) = 2
    /\ inactive = 2
    /\ current = <<>> /\ queue = <<>> /\ rpcs = <<>>

\* C9: run() terminates when callbacks return, idle callbacks report
\* did-work finitely often, finitely many items are registered, sleep
\* advances the clock and wait_any returns a handle of the table.
C9_RunTerminates == (pc = "run") ~> RunReturned

\* run() has returned after it slept until a timed event was due (its
\* deadline is past the time at which the clock started) and invoked that
\* event and another callback.
C9_Witness ==
    /\ RunReturned
    /\ Len(log) >= 2
    /\ \E i \in 1..Len(log) :
          log[i].kind = "queue" /\ log[i].when > Threshold

\* The run() of C10 has just returned: it began with idle items only, no
\* callback registered anything, and every invoked callback was an idle
\* callback that returned False.
OnlyIdlersNoWork ==
    /\ RunReturned
    /\ start.pure
    /\ nextId = start.id
    /\ \A i \in 1..Len(log) : log[i].res = "False"

\* C10 as claimed: such a run() invokes each of the N idle items once, in
\* the order of their registration, and returns with inactive = N and the N
\* items in the idle queue.
C10_RegistrationOrder ==
    OnlyIdlersNoWork =>
        /\ Len(log) = Len(start.idlers)
        /\ inactive = Len(start.idlers)
        /\ Len(idlers) = Len(start.idlers)
        /\ {log[i].id : i \in 1..Len(log)}
               = {start.idlers[i].id : i \in 1..Len(start.idlers)}
        /\ \A i, j \in 1..Len(log) : i < j => log[i].id < log[j].id

\* C10, amended: such a run() invokes each of the N idle items once, in the
\* order in which the idle queue held them when run() began, and returns
\* with inactive = N and the idle queue as it was.
C10_QueueOrder ==
    OnlyIdlersNoWork =>
        /\ Len(log) = Len(start.idlers)
        /\ inactive = Len(start.idlers)
        /\ idlers = start.idlers
        /\ \A i \in 1..Len(log) : log[i].id = start.idlers[i].id

\* Such a run() has returned with two idle items.
C10_Witness ==
    /\ OnlyIdlersNoWork
    /\ Len(start.idlers) = 2
    /\ Len(log) = 2

\* A step that runs an idle callback: run_idle() called by the application
\* with a runnable idle item, or a step of run0 that finds the immediate
\* queue empty and an idle item runnable.
IdleStep ==
    /\ IdleRunnable
    /\ \/ was.call.op = "run_idle"
       \/ IsStep /\ was.current = <<>>
\* The idle queue after the step begins with the items that stood behind
\* the front item.
RestKept == SubSeq(idlers, 1, Len(was.idlers) - 1) = Tail(was.idlers)

\* C11: after an idle callback has returned, run_idle applies its result:
\* None drops the item and leaves inactive as it was; False adds one to
\* inactive and puts the item back at the tail of the idle queue; True sets
\* inactive to zero and puts the item back at the tail.
C11_TriState ==
    (IdleStep /\ exc = "none") =>
        /\ Len(Invoked) = 1
        /\ Invoked[1].kind = "idle"
        /\ Invoked[1].id = Head(was.idlers).id
        /\ RestKept
        /\ Invoked[1].res = "None" =>
              /\ inactive = was.inactive
              /\ \A i \in 1..Len(idlers) : idlers[i].id # Head(was.idlers).id
        /\ Invoked[1].res = "False" =>
              /\ inactive = was.inactive + 1
              /\ Len(idlers) >= Len(was.idlers)
              /\ idlers[Len(idlers)] = Head(was.idlers)
        /\ Invoked[1].res = "True" =>
              /\ inactive = 0
              /\ Len(idlers) >= Len(was.idlers)
              /\ idlers[Len(idlers)] = Head(was.idlers)

\* run_idle() has run the front one of two idle items after a no-work
\* report had been counted: the callback reported did-work, inactive is
\* zero again and the item stands at the tail.
C11_Witness ==
    /\ ret.op = "run_idle"
    /\ ret.val = Num(1)
    /\ Len(log) = 1
    /\ log[1].res = "True"
    /\ inactive = 0
    /\ Len(idlers) = 2
    /\ idlers[2].id = log[1].id
    /\ idlers[2].id < idlers[1].id

\* C12: run_idle pops and invokes the front idle item only when inactive is
\* less than the number of idle items; otherwise (the idle queue is empty or
\* inactive has reached its length) it returns False, pops nothing, invokes
\* nothing and changes no state.  A step of run0 that finds no idle item
\* runnable invokes no idle callback and pops no idle item either.
C12_DeclinesUnchanged ==
    /\ (was.call.op = "run_idle" /\ IdleRunnable) =>
           /\ Len(log) = 1
           /\ log[1].kind = "idle"
           /\ log[1].id = Head(was.idlers).id
           /\ RestKept
           /\ exc = "none" => ret.val = Num(1)
    /\ (was.call.op = "run_idle" /\ ~IdleRunnable) =>
           /\ ret.val = Num(0)
           /\ log = <<>>
           /\ exc = "none"
           /\ Unchanged({"now", "current", "idlers", "inactive", "queue",
                         "rpcs", "rpcState", "nextId", "didWork"})
    /\ (IsStep /\ ~IdleRunnable) =>
           /\ \A i \in 1..Len(Invoked) : Invoked[i].kind # "idle"
           /\ SubSeq(idlers, 1, Len(was.idlers)) = was.idlers

\* run_idle() has declined with an idle item in the idle queue, and with
\* an immediate item waiting.
C12_Witness ==
    /\ ret.op = "run_idle"
    /\ ret.val = Num(0)
    /\ log = <<>>
    /\ Len(idlers) = 1
    /\ inactive = 1
    /\ Len(current) = 1

\* run_idle declines although the idle queue is not empty.
IdleYields == idlers # <<>> /\ inactive >= Len(idlers)
\* The idle items that have reported no-work since inactive was last reset.
Reported == {noWork[i] : i \in 1..Len(noWork)}

\* C13 as claimed: idle processing yields only once every idle item that is
\* registered has been invoked and has reported no-work since inactive was
\* last set to zero.
C13_EveryItemReported == IdleYields => IdsOf(idlers) \subseteq Reported

\* C13, amended: inactive is the number of no-work reports since it was
\* last set to zero, so idle processing yields only once there were at
\* least as many such reports as idle items are registered; among them is a
\* report of every registered idle item that was already registered when
\* inactive was last set to zero.
C13_EnoughReports ==
    /\ inactive = Len(noWork)
    /\ IdleYields =>
          /\ Len(noWork) >= Len(idlers)
          /\ (IdsOf(idlers) \cap atReset) \subseteq Reported

\* Idle processing yields with two idle items registered, one of which
\* has reported no-work twice and the other never.
C13_Witness ==
    /\ IdleYields
    /\ Len(idlers) = 2
    /\ Len(noWork) = 2
    /\ noWork[1] = noWork[2]

\* An idle item that was in the idle queue before the operation is in it
\* afterwards, unless the operation invoked its callback and the callback
\* returned None or raised.
StaysUnlessRemoved ==
    \A i \in 1..Len(was.idlers) :
        \/ was.idlers[i].id \in IdsOf(idlers)
        \/ /\ i = 1
           /\ Len(Invoked) = 1
           /\ Invoked[1].kind = "idle"
           /\ Invoked[1].id = was.idlers[1].id
           /\ Invoked[1].res = "None" \/ exc # "none"

\* The idle callbacks a run() has invoked.
IdleInvoked == {log[i].id : i \in {j \in 1..Len(log) : log[j].kind = "idle"}}

\* run() has ended: it returned, or a callback's exception ended it.
RunEnded == pc = "idle" /\ ret.op = "run"

C15_IdleExceptionCaught ==
    (IdleStep /\ Len(Invoked) = 1 /\ Invoked[1].res = "raise") =>
        /\ exc = "none"
        /\ Head(was.idlers).id \notin IdsOf(idlers)
        /\ pc = was.pc

\* The step invoked one callback, an immediate or a timed one, and the
\* callback raised.
CallbackRaised ==
    /\ IsStep
    /\ Len(Invoked) = 1
    /\ Invoked[1].kind \in {"current", "queue"}
    /\ Invoked[1].res = "raise"

\* C16: an exception raised by an immediate or a timed callback comes out of
\* run0, run1 and run as it was raised: the step ends with that exception,
\* without sleeping, and run() leaves its loop.
C16_Propagates ==
    CallbackRaised =>
        /\ exc = "CallbackError"
        /\ now = was.now
        /\ pc = "idle"

\* run() has ended with the exception of a timed callback, after it had
\* invoked another callback.
C16_Witness ==
    /\ RunEnded
    /\ exc = "CallbackError"
    /\ Len(log) = 2
    /\ log[2].kind = "queue"
    /\ log[2].res = "raise"

\* The operation through which the entry of handle h was registered.
EntryOp(h) == IF rpcs[h].multi # {} THEN Multi(rpcs[h].multi) ELSE Single(h)

MultiIn(t, hs) ==
    IF /\ hs \subseteq DOMAIN t
       /\ \A h \in hs : t[h].multi = hs
       /\ \A g, h \in hs : t[g].id = t[h].id
    THEN t[CHOOSE h \in hs : TRUE].id
    ELSE 0

\* How often the callback of registration x was invoked.
CallsOf(x) == Cardinality({i \in 1..Len(log) : log[i].kind = "rpc" /\ log[i].id = x})

\* run() has returned from a drain that began with the MultiRpc over hs
\* registered, and in which nothing was registered.
MultiDrained(hs) ==
    /\ RunReturned
    /\ MultiIn(start.rpcs, hs) > 0
    /\ nextId = start.id

StepWith(env) == IsStep /\ was.env = env
\* The step called wait_any: no immediate item, no runnable idle item, no
\* due timed event, and a table that is not empty.
WaitReached ==
    /\ was.current = <<>>
    /\ ~IdleRunnable
    /\ ~TimerDue
    /\ DOMAIN was.rpcs # {}
\* wait_any returns the handle h.
WaitReturns(h) == [res |-> "None", reg |-> RegNone, wait |-> <<h>>]

\* C20: when wait_any returns a handle that is not a key of the table of
\* pending RPCs, run0 fails with an error, invokes no callback and removes
\* no entry from the table.
C20_StrangerRefused ==
    \A h \in Handles \ DOMAIN was.rpcs :
        (WaitReached /\ StepWith(WaitReturns(h))) =>
            /\ exc = "RuntimeError"
            /\ Invoked = <<>>
            /\ rpcs = was.rpcs
            /\ pc = "idle"

\* run0 has failed on a handle that wait_any returned and the table does
\* not hold; the entry of the table is still there.
C20_Witness ==
    /\ ret.op = "run0"
    /\ exc = "RuntimeError"
    /\ log = <<>>
    /\ DOMAIN rpcs # {}
    /\ DOMAIN rpcs # Handles

\* The list q with its element at position j taken out.
Without(q, j) == SubSeq(q, 1, j - 1) \o SubSeq(q, j + 1, Len(q))

\* The deadline queue_call is to give an event: now + delay below the
\* threshold, the delay itself at or above it.
Deadline(delay) == IF delay.d < Threshold THEN was.now + delay.d ELSE delay.d

\* C21: queue_call adds one item to one structure.  With the delay None the
\* item is appended to the immediate queue, and the timer queue is as it
\* was; with a number (0 included) one event is inserted into the timer
\* queue, with the deadline now + delay when the delay is below the
\* threshold and the delay itself otherwise, and the immediate queue is as
\* it was.  The idle queue and the table of pending RPCs are as they were.
C21_OneItemOneStructure ==
    was.call.op = "queue_call" =>
        LET delay == was.call.delay
            arg == was.call.arg
        IN  /\ idlers = was.idlers
            /\ rpcs = was.rpcs
            /\ inactive = was.inactive
            /\ delay.isNone =>
                  /\ current = Append(was.current,
                                      [id |-> was.nextId, arg |-> arg,
                                       cb |-> TRUE])
                  /\ queue = was.queue
            /\ ~delay.isNone =>
                  /\ current = was.current
                  /\ Len(queue) = Len(was.queue) + 1
                  /\ \E j \in 1..Len(queue) :
                        /\ queue[j] = [when |-> Deadline(delay),
                                       id |-> was.nextId, arg |-> arg]
                        /\ Without(queue, j) = was.queue

\* The timer queue holds an event with an absolute deadline (the second
\* registration, queued for the threshold itself when the clock was past
\* it) before one with a relative deadline (the first registration,
\* queued with delay 1 when the clock had advanced by 1).
C21_Witness ==
    /\ now > Threshold
    /\ Len(queue) = 2
    /\ queue[1].id = 2 /\ queue[1].when = Threshold
    /\ queue[2].id = 1 /\ queue[2].when = Threshold + 2

\* C22: the callback of a timed event is never invoked at a step at which
\* the clock is before the deadline of the event; and a step that finds the
\* earliest event not yet due leaves the timer queue as it is: it removes
\* and moves no event (the one change there can be is the event that the
\* callback the step invokes, of another source, registers itself).
C22_NotBeforeDeadline ==
    IsStep =>
        /\ \A i \in 1..Len(Invoked) :
              Invoked[i].kind = "queue" => Invoked[i].when <= was.now
        /\ (was.queue # <<>> /\ was.queue[1].when > was.now) =>
              \/ queue = was.queue
              \/ /\ Len(Invoked) = 1
                 /\ \E j \in 1..Len(queue) :
                       /\ queue[j].id = was.nextId
                       /\ Without(queue, j) = was.queue

\* run0 has found the earliest timed event not yet due: it invoked nothing,
\* left the event in the queue and returned the time that remains.
C22_Witness ==
    /\ ret.op = "run0"
    /\ exc = "none"
    /\ log = <<>>
    /\ queue # <<>>
    /\ queue[1].when > now
    /\ ret.val = Num(queue[1].when - now)

\* C23: run1 returns False exactly when its call of run0 returned None, and
\* True otherwise; it sleeps for d, once, when run0 returned a positive d
\* (the clock is d later when run1 returns), and it does not sleep when
\* run0 returned 0 or None (the clock is where it was).
C23_Run1ReturnsAndSleeps ==
    (ret.op = "run1" /\ exc = "none") =>
        /\ ret.val \in {Num(0), Num(1)}
        /\ ret.val = Num(0) <=> ret.delay.isNone
        /\ (~ret.delay.isNone /\ ret.delay.d > 0) =>
              now = was.now + ret.delay.d
        /\ (ret.delay.isNone \/ ret.delay.d = 0) => now = was.now

\* run1 has returned True after its run0 invoked nothing and returned a
\* positive delay: it slept until the earliest timed event was due.
C23_Witness ==
    /\ ret.op = "run1"
    /\ ret.val = Num(1)
    /\ ret.delay.d > 0
    /\ log = <<>>
    /\ queue # <<>>
    /\ queue[1].when = now

\* The table of pending RPCs that the step found, without the entry of h.
TableWithout(h) == [r \in DOMAIN was.rpcs \ {h} |-> was.rpcs[r]]
\* The step called wait_any, which returned the handle h.
WaitReturned(h) == IsStep /\ WaitReached /\ was.env.wait = <<h>>
\* How often the callback of registration x had been invoked before the
\* step.
CallsBefore(x) ==
    Cardinality({i \in 1..Len(was.log) :
                    was.log[i].kind = "rpc" /\ was.log[i].id = x})

\* The step invoked the callback of registration x.
Called(x) ==
    \E i \in 1..Len(Invoked) : Invoked[i].kind = "rpc" /\ Invoked[i].id = x

C30_EverySubRpcIsAKey ==
    /\ (/\ was.call.op = "queue_rpc"
        /\ was.call.rpc.multi
        /\ was.call.rpc.subs \in Composites
        /\ OpState(was, was.call.rpc) # "IDLE") =>
          LET hs == was.call.rpc.subs
          IN  /\ DOMAIN rpcs = DOMAIN was.rpcs \cup hs
              /\ DOMAIN rpcs \subseteq Handles
              /\ \A h \in hs :
                    rpcs[h] = [id |-> was.nextId, arg |-> 0,
                               cb |-> was.call.cb, multi |-> hs]
              /\ \A r \in DOMAIN was.rpcs \ hs : rpcs[r] = was.rpcs[r]
    /\ IsStep => \A h \in DOMAIN was.rpcs \ DOMAIN rpcs : WaitReturned(h)
    /\ RunReturned => rpcs = <<>>

\* run() has returned from a drain that began with a MultiRpc over two
\* RPCs registered: its callback was invoked first, the immediate item
\* that the callback registered after it, and the table is empty.
C30_Witness ==
    /\ RunReturned
    /\ MultiIn(start.rpcs, Handles) > 0
    /\ Len(log) = 2
    /\ log[1].kind = "rpc"
    /\ log[1].id = MultiIn(start.rpcs, Handles)
    /\ log[2].kind = "current"
    /\ log[2].id >= start.id
    /\ rpcs = <<>>

\* C24 as claimed: get_event_loop returns in a context that has a loop that
\* same loop, and no two contexts that exist side by side are bound to the
\* same EventLoop instance, a context derived from one that has a loop
\* included.
C24_OneLoopPerContext ==
    /\ was.call.op = "get_event_loop" =>
          LET c == was.call.arg
          IN  was.ev[c] # 0 =>
                 ev[c] = was.ev[c] /\ ret.val = Num(was.ev[c])
    /\ \A c, d \in contexts : (c # d /\ ev[c] # 0) => ev[c] # ev[d]

\* The four structures of the loop are empty.
AllEmpty == current = <<>> /\ idlers = <<>> /\ queue = <<>> /\ rpcs = <<>>

\* C25: get_event_loop() in a context whose binding is None (as it is after
\* _set_event_loop(None)) returns an EventLoop that did not exist before;
\* in the request's context the four structures of that loop are empty and
\* inactive is 0, whatever was pending in the loop before it, and no
\* callback was invoked.
C25_NewLoopIsEmpty ==
    was.call.op = "get_event_loop" =>
        LET c == was.call.arg
        IN  was.ev[c] = 0 =>
               /\ ev[c] > was.made
               /\ ret.val = Num(ev[c])
               /\ \A d \in Contexts \ {c} : ev[d] = was.ev[d]
               /\ c = 1 => (AllEmpty /\ inactive = 0 /\ log = <<>>)

\* get_event_loop() has returned a second loop in the request's context;
\* an RPC that was sent and registered with the first loop was never
\* waited for (it is still RUNNING, and nothing else was ever registered),
\* and the new loop's structures are empty.
C25_Witness ==
    /\ ret.op = "get_event_loop"
    /\ ret.val = Num(2)
    /\ ev[1] = 2
    /\ contexts = {1}
    /\ nextId = 2
    /\ rpcState[1] = "RUNNING"
    /\ done = [hs \in Composites |-> FALSE]
    /\ AllEmpty
    /\ log = <<>>

\* C26 as claimed: no callback of the loop starts while another callback of
\* the loop has started and not yet returned.
C26_OneCallbackAtATime == \A i \in 1..Len(log) : log[i].depth = 0

\* C27: clear() leaves the immediate queue, the idle queue, the timer queue
\* and the table of pending RPCs empty and inactive 0, and it invokes no
\* callback (it raises nothing, and the clock and the RPCs are as they
\* were).
C27_ClearRemovesAll ==
    was.call.op = "clear" =>
        /\ AllEmpty /\ inactive = 0 /\ log = <<>> /\ exc = "none"
        /\ Unchanged({"now", "rpcState", "nextId", "didWork"})

\* clear() has found two events pending and removed them without a call.
C27_Witness ==
    /\ ret.op = "clear"
    /\ ret.val = Num(2)
    /\ nextId = MaxItems + 1
    /\ AllEmpty
    /\ inactive = 0
    /\ log = <<>>

\* C28: insort_event_right called with a negative lo fails with ValueError
\* and leaves the timer queue, and the rest of the loop, as it was.
C28_NegativeLoRefused ==
    (was.call.op = "insort_event_right" /\ was.call.arg < 0) =>
        /\ exc = "ValueError"
        /\ Unchanged({"queue", "current", "idlers", "inactive", "rpcs",
                      "now"})

\* insort_event_right has been refused while a timed event waits in the
\* queue.
C28_Witness ==
    /\ exc = "ValueError"
    /\ ret = NoRet
    /\ Len(queue) = 1
    /\ nextId = 3

\* C31: take a step at which wait_any returns a handle h of the table of
\* pending RPCs.  The step invokes at most one callback, that of the entry
\* of h; the callback of an RPC registered alone with a callback is invoked
\* once, with the arguments it was registered with.  The entry of h is
\* removed before the callback runs: after the step, also when the callback
\* raised, the table holds an entry for h only if the callback registered h
\* itself, and then it holds that new entry.  With a callback that
\* registers nothing the table is the one before the step without the
\* entry of h, and the immediate, idle and timer queues are as they were.
\* run0 returns 0 (and run1 True, without sleeping).
C31_ServesReportedRpc ==
    \A h \in DOMAIN was.rpcs :
        WaitReturned(h) =>
            /\ Len(Invoked) <= 1
            /\ \A i \in 1..Len(Invoked) :
                  /\ Invoked[i].kind = "rpc"
                  /\ Invoked[i].id = was.rpcs[h].id
                  /\ Invoked[i].arg = was.rpcs[h].arg
            /\ (was.rpcs[h].multi = {} /\ was.rpcs[h].cb) => Len(Invoked) = 1
            /\ h \in DOMAIN rpcs =>
                  /\ Len(Invoked) = 1
                  /\ was.env.reg.op = "queue_rpc"
                  /\ rpcs[h].id = was.nextId
            /\ (was.env.reg = RegNone \/ Invoked = <<>>) =>
                  /\ rpcs = TableWithout(h)
                  /\ Unchanged({"current", "idlers", "queue"})
            /\ (/\ Len(Invoked) = 1
                /\ was.env.reg.op = "queue_rpc"
                /\ h \in was.env.reg.rpc.subs
                /\ exc = "none") =>
                  /\ h \in DOMAIN rpcs
                  /\ rpcs[h].id = was.nextId
            /\ exc = "none" =>
                  /\ ret.op = "run0" => ret.val = Num(0)
                  /\ ret.op = "run1" => ret.val = Num(1)
                  /\ now = was.now
                  /\ pc = was.pc

\* run0 has served an RPC that wait_any reported: the callback was invoked
\* once, and it registered the same RPC again; the entry it registered is
\* in the table, that of the served registration is gone.
C31_Witness ==
    /\ ret.op = "run0"
    /\ ret.val = Num(0)
    /\ exc = "none"
    /\ Len(log) = 1
    /\ log[1].kind = "rpc"
    /\ \E h \in DOMAIN rpcs :
          /\ rpcs[h].id = log[1].id + 1
          /\ rpcs[h].multi = {}
          /\ rpcState[h] = "FINISHING"
    /\ Cardinality(DOMAIN rpcs) = 1

\* The delay that the run0 of a step returned.
StepDelay == IF ret.op = "run0" THEN ret.val ELSE ret.delay
\* The earliest deadline of the timer queue that the step found.
EarliestDeadline ==
    CHOOSE w \in {was.queue[i].when : i \in 1..Len(was.queue)} :
        \A j \in 1..Len(was.queue) : w <= was.queue[j].when

\* C32: run0 returns a positive delay d only when the immediate queue is
\* empty, no idle item is runnable, the table of pending RPCs is empty and
\* the timer queue is not; d is then the earliest deadline less the clock,
\* no callback was invoked, and the three queues, the table and inactive
\* are as they were (the clock too, unless it is run1 that slept for d).
C32_PositiveWait ==
    (IsStep /\ exc = "none" /\ ~StepDelay.isNone /\ StepDelay.d > 0) =>
        /\ was.current = <<>>
        /\ ~IdleRunnable
        /\ was.rpcs = <<>>
        /\ was.queue # <<>>
        /\ StepDelay.d = EarliestDeadline - was.now
        /\ Invoked = <<>>
        /\ Unchanged({"current", "idlers", "queue", "rpcs", "inactive"})
        /\ ret.op = "run0" => now = was.now

\* run0 has returned a positive delay: an idle item is registered and has
\* backed off, and a timed event waits for its deadline.
C32_Witness ==
    /\ ret.op = "run0"
    /\ exc = "none"
    /\ ~ret.val.isNone
    /\ ret.val.d > 0
    /\ log = <<>>
    /\ Len(idlers) = 1
    /\ inactive = 1
    /\ Len(queue) = 1
    /\ ret.val.d = queue[1].when - now

\* C33: inactive is zero when run() has been entered, and after every step
\* that finds an immediate item, that finds (with no immediate item and no
\* runnable idle item) a due timed event, or that gets as far as the table
\* of pending RPCs and finds it non-empty, whether the callback the step
\* invoked returned or raised; so after such a step every idle item in the
\* idle queue, the ones that had backed off included, is eligible again.
C33_InactiveReset ==
    /\ (was.call.op = "run" /\ was.pc = "idle") => inactive = 0
    /\ (/\ IsStep
        /\ \/ was.current # <<>>
           \/ was.current = <<>> /\ ~IdleRunnable /\ TimerDue
           \/ WaitReached) =>
          /\ inactive = 0
          /\ idlers # <<>> => inactive < Len(idlers)

\* run0 has served a due timed event while an idle item that was registered
\* before the event had backed off (it would have been served first
\* otherwise): the idle item is eligible again.
C33_Witness ==
    /\ ret.op = "run0"
    /\ exc = "none"
    /\ Len(log) = 1
    /\ log[1].kind = "queue"
    /\ log[1].id = 2
    /\ Len(idlers) = 1
    /\ idlers[1].id = 1
    /\ inactive = 0

\* C36: whenever run() has returned normally, the immediate queue, the
\* timer queue and the table of pending RPCs are empty, and inactive is at
\* least the number of items in the idle queue (the idle items that remain
\* are not runnable: idle processing has backed off).
C36_ReturnLeavesOnlyIdle ==
    RunReturned =>
        /\ current = <<>>
        /\ queue = <<>>
        /\ rpcs = <<>>
        /\ inactive >= Len(idlers)

\* run() has returned from a drain that served a timed event and then an
\* idle item, which reported no-work and stays, backed off, in the idle
\* queue.
C36_Witness ==
    /\ RunReturned
    /\ Len(log) = 2
    /\ log[1].kind = "queue"
    /\ log[2].kind = "idle"
    /\ log[2].res = "False"
    /\ Len(idlers) = 1
    /\ inactive = 1

\* Registration x can be served from the queues c, i and q and the table r:
\* it is an item of a queue, or the entry of an RPC whose callback has not
\* been called (d is the __done flag of the MultiRpcs).
ServableIn(x, c, i, q, r, d) ==
    \/ \E k \in 1..Len(c) : c[k].id = x
    \/ \E k \in 1..Len(i) : i[k].id = x
    \/ \E k \in 1..Len(q) : q[k].id = x
    \/ \E h \in DOMAIN r :
          /\ r[h].id = x
          /\ r[h].cb
          /\ r[h].multi # {} => ~d[r[h].multi]
Servable(x) ==
    ServableIn(x, was.current, was.idlers, was.queue, was.rpcs, was.done)
ServableAfter(x) == ServableIn(x, current, idlers, queue, rpcs, done)

\* The items of the list q other than registration x are, in the same
\* order, the items of q after the step that were registered before it.
OthersKept(q, qq, x) ==
    LET Other(e) == e.id # x
        Old(e) == e.id < was.nextId
    IN  SelectSeq(qq, Old) = SelectSeq(q, Other)

\* C37: a step invokes a callback only of an item that was in its structure
\* when the step began, and when the callback raises the item is gone from
\* every structure (of a MultiRpc the other sub-RPCs stay in the table, with
\* the callback marked as called); the other items are in their structures
\* in the same order, the other entries of the table are as they were or
\* were replaced by what the callback registered.  An item that cannot be
\* served any more never can be again, so no later run() invokes it.
C37_RemovedBeforeInvoked ==
    /\ IsStep => \A i \in 1..Len(Invoked) : Servable(Invoked[i].id)
    /\ (IsStep /\ exc # "none" /\ Invoked # <<>>) =>
          LET x == Invoked[Len(Invoked)].id
          IN  /\ ~ServableAfter(x)
              /\ OthersKept(was.current, current, x)
              /\ OthersKept(was.idlers, idlers, x)
              /\ OthersKept(was.queue, queue, x)
              /\ \A h \in DOMAIN was.rpcs :
                    was.rpcs[h].id # x =>
                       /\ h \in DOMAIN rpcs
                       /\ rpcs[h] = was.rpcs[h] \/ rpcs[h].id = was.nextId
              /\ Cardinality(DOMAIN was.rpcs \ DOMAIN rpcs) <= 1
    /\ \A x \in 1..(was.nextId - 1) : ~Servable(x) => ~ServableAfter(x)

\* run0 has invoked the callback of the first of two immediate items, and
\* the callback raised: the item is gone, the second item is still in the
\* immediate queue.
C37_Witness ==
    /\ ret.op = "run0"
    /\ exc = "CallbackError"
    /\ Len(log) = 1
    /\ log[1].kind = "current"
    /\ log[1].res = "raise"
    /\ Len(current) = 1
    /\ current[1].id = log[1].id + 1

\* wait_any returns None: no RPC has completed.
NoHandle == [res |-> "None", reg |-> RegNone, wait |-> <<>>]

\* C38: take a step that gets as far as the table of pending RPCs, finds it
\* non-empty, and at which wait_any returns None.  run0 returns 0 (run1
\* True, without sleeping), no callback is invoked, nothing is raised, the
\* table and the three queues are as they were, and a run() that is looping
\* goes on looping.
C38_NoHandleKeepsStepping ==
    (WaitReached /\ StepWith(NoHandle)) =>
        /\ Invoked = <<>>
        /\ exc = "none"
        /\ Unchanged({"rpcs", "current", "idlers", "queue", "now"})
        /\ ret.op = "run0" => ret.val = Num(0)
        /\ ret.op = "run1" => ret.val = Num(1) /\ ret.delay = Num(0)
        /\ was.pc = "run" => pc = "run" /\ ret.op = "run1"

\* run() is looping over a table of pending RPCs that is as it was when
\* run() began: the steps so far have invoked nothing, registered nothing
\* and each returned 0.
C38_Witness ==
    /\ pc = "run"
    /\ ret.op = "run1"
    /\ ret.delay = Num(0)
    /\ exc = "none"
    /\ log = <<>>
    /\ nextId = start.id
    /\ rpcs # <<>>
    /\ rpcs = start.rpcs
    /\ queue = <<>>

\* C39 as claimed: an RPC, or a MultiRpc, registered with queue_rpc without
\* a callback is waited for like any other: at the step at which wait_any
\* reports its handle h the entry of h is removed, no callback is invoked
\* and nothing is raised; and queue_rpc for a handle that is in the table
\* replaces its entry, the callback included.
C39_NoCallbackStillWaited ==
    /\ \A h \in DOMAIN was.rpcs :
          (WaitReturned(h) /\ ~was.rpcs[h].cb) =>
             /\ Invoked = <<>>
             /\ exc = "none"
             /\ rpcs = TableWithout(h)
    /\ \A h \in DOMAIN was.rpcs :
          (/\ was.call.op = "queue_rpc"
           /\ was.call.rpc = Single(h)
           /\ was.rpcState[h] # "IDLE") =>
             /\ DOMAIN rpcs = DOMAIN was.rpcs
             /\ rpcs[h] = [id |-> was.nextId, arg |-> 0,
                           cb |-> was.call.cb, multi |-> {}]

\* C35: in every state that queue_call, add_idle, queue_rpc, run_idle, run0,
\* run1, run and clear lead to, 0 <= inactive <= the number of items in the
\* idle queue.
C35_InactiveWithinIdle == 0 <= inactive /\ inactive <= Len(idlers)

\* Of two idle items the first reported no-work and the second, invoked by
\* the next run_idle, removed itself: inactive, 1, is the number of idle
\* items that are left.
C35_Witness ==
    /\ ret.op = "run_idle"
    /\ Len(log) = 1
    /\ log[1].kind = "idle"
    /\ log[1].res = "None"
    /\ log[1].id = 2
    /\ Len(idlers) = 1
    /\ idlers[1].id = 1
    /\ inactive = 1

\* The registrations whose callbacks the step invoked.
InvokedIds == {Invoked[i].id : i \in 1..Len(Invoked)}
\* The callback that the step invoked registered work (registration nextId)
\* and the registration was accepted.
StepRegistered ==
    IsStep /\ Invoked # <<>> /\ nextId = was.nextId + 1 /\ exc = "none"

\* C34 as claimed, for the idle items: when run() has returned, every idle
\* item that a callback registered during the drain, and that is still in
\* the idle queue, was invoked by a step of the drain.
C34_ServedInSameDrain ==
    RunReturned =>
        \A i \in 1..Len(idlers) :
            idlers[i].id >= start.id => idlers[i].id \in IdleInvoked

\* C34, amended: work that a callback registers while it runs is in its
\* structure, and in no other, when the step returns, and the step has not
\* invoked it; an idle item that registers an idle item and stays is put
\* back behind the new one.  Until it is served the work stays: a step takes
\* an immediate item, a timed event or the entry of a single RPC with a
\* callback out of its structure only by invoking it (or, for an entry, when
\* the callback invoked registers the RPC again), and run() returns only
\* with the immediate queue, the timer queue and the table empty; so a later
\* step of the same drain serves it, unless it is an idle item: that may
\* still wait, never invoked, when idle processing backs off and run()
\* returns.
C34_RegisteredWorkIsKept ==
    /\ StepRegistered =>
          LET x == was.nextId
          IN  /\ x \notin InvokedIds
              /\ Cardinality({k \in {"current", "idlers", "queue", "rpcs"} :
                     CASE k = "current" -> x \in IdsOf(current)
                       [] k = "idlers" -> x \in IdsOf(idlers)
                       [] k = "queue" -> x \in IdsOf(queue)
                       [] k = "rpcs" ->
                             \E h \in DOMAIN rpcs : rpcs[h].id = x}) = 1
              /\ (/\ Invoked[1].kind = "idle"
                  /\ Invoked[1].res # "None"
                  /\ x \in IdsOf(idlers)) =>
                    /\ idlers[Len(idlers)].id = Invoked[1].id
                    /\ idlers[Len(idlers) - 1].id = x
    /\ IsStep =>
          /\ \A i \in 1..Len(was.current) :
                was.current[i].id \in IdsOf(current) \cup InvokedIds
          /\ \A i \in 1..Len(was.queue) :
                was.queue[i].id \in IdsOf(queue) \cup InvokedIds
          /\ \A h \in DOMAIN was.rpcs :
                (/\ was.rpcs[h].multi = {}
                 /\ was.rpcs[h].cb
                 /\ exc = "none") =>
                   \/ was.rpcs[h].id \in InvokedIds
                   \/ h \in DOMAIN rpcs /\ rpcs[h] = was.rpcs[h]
                   \/ h \in DOMAIN rpcs /\ rpcs[h].id = was.nextId
    /\ RunReturned => current = <<>> /\ queue = <<>> /\ rpcs = <<>>

\* run() has returned from a drain that began with two idle items: the
\* second registered a third when it was invoked, the three reported
\* no-work three times between them, and the third was never invoked.
C34_Witness ==
    /\ RunReturned
    /\ start.id = 3
    /\ Len(start.idlers) = 2
    /\ Len(idlers) = 3
    /\ inactive = 3
    /\ Len(log) = 3
    /\ \E i \in 1..3 : idlers[i].id = 3
    /\ 3 \notin IdleInvoked

\* C40 as claimed: when the with block of a _RequestContextSnapshot (or its
\* run(f)) has been left, by a return or by an exception, every context
\* variable of the snapshot has the value it had just before the block was
\* entered.
C40_RoundTrip ==
    req.phase = "exited" =>
        \A v \in DOMAIN req.context : req.vars[v] = req.before[v]

====
